---- MODULE Spec2Model ----
(***************************************************************************)
(* Model of the annotation overlay's history engine (useCanvasStore), its  *)
(* persistence in localStorage, the canvas / overlay side-channel state of *)
(* AnnotationCanvas, and the handlers of OverlayView / OptionsPanel that   *)
(* drive them.                                                             *)
(*                                                                         *)
(* Conventions.                                                            *)
(*  - JavaScript arrays are TLA+ sequences; a JavaScript index i is the    *)
(*    TLA+ index i + 1.  historyIndex keeps the JavaScript value (-1 for   *)
(*    "no entry").                                                         *)
(*  - A value that may be null / undefined is a sequence of length 0 or 1  *)
(*    (None, Some(x)).                                                     *)
(*  - A snapshot is the content of the JSON string the code pushes: two    *)
(*    snapshot strings are equal exactly when their contents are equal.    *)
(***************************************************************************)
EXTENDS Integers, Sequences, FiniteSets, TLC

VARIABLES
  \* renderer: useCanvasStore
  history,          \* history: string[]
  historyIndex,     \* historyIndex: number
  \* localStorage of the overlay window's origin (survives window close and process restart)
  lsState,          \* item CANVAS_STATE_KEY   (None or Some(snapshot))
  lsHistory,        \* item CANVAS_HISTORY_KEY (None or Some([history, historyIndex]))
  \* main process
  isFreshStart,     \* let isFreshStart
  ipcPending,       \* check-fresh-start requests sent to the main process and not yet handled
  \* main process: WindowManager
  settingsWindow,   \* this.settingsWindow is not null
  overlayWindow,    \* this.overlayWindow is not null
  overlayShown,     \* the overlay window has been shown (isVisible())
  capturing,        \* calls of showOverlay waiting at `await this.captureScreenForOverlay(bounds)`
  \* renderer: AnnotationCanvas
  pc,               \* position of the overlay renderer / initCanvas
  objects,          \* canvas.getObjects(), back to front
  canvasCropBounds, \* (canvas as any).cropBounds
  spotlightHoles,   \* overlayState.spotlightHoles
  spotlightOverlay, \* overlayState.spotlightOverlay is not null
  cropOverlay,      \* overlayState.cropOverlay is not null
  hasCrop,          \* overlayState.hasCrop
  cropBounds,       \* overlayState.cropBounds
  isDrawing,        \* isDrawingRef.current
  startPoint,       \* startPointRef.current
  currentObject,    \* currentObjectRef.current
  endPoint,         \* endPointRef.current
  pointerDown,      \* the pointer button is held down over the canvas (between mouse:down and mouse:up)
  \* renderer: useToolStore
  activeTool,       \* activeTool
  spotlightShape,   \* config.spotlightShape
  spotlightColor,   \* config.spotlightColor
  spotlightDarkness,\* config.spotlightDarkness, in percent
  numberingCounter, \* numberingCounter
  \* renderer: AnnotationCanvas, OverlayView
  clipboard,        \* clipboardRef.current (None or Some(object))
  savePc,           \* position of handleSaveWithOptions: "idle", "bg", "write", "timer"
  saveCtx,          \* its locals across the awaits: bounds and objectsToRestore
  secondSave,       \* a second call of handleSaveWithOptions in flight: None or Some([pc, bounds, restore])
  blurPending,      \* handleMouseUp calls waiting at `await createBlurRect(...)`: the rectangle of each
  textToolState,    \* useToolStore: textToolState
  \* main process: the 'upload-image' handler and the upload widget
  uploadPc,         \* position of the handler: "idle", "fetch", "text", "page", "html", "done"
  currentProgress,  \* let currentProgress
  progressInterval, \* the interval set by setInterval is running
  uploadWidget,     \* this.uploadWidget is not null
  widgetUpdates,    \* the 'upload-widget-update' messages sent to the widget, in order
  \* observation of the run (not program state)
  log,              \* the last call: operation, argument, store before it, return value
  freshReplies,     \* replies of the check-fresh-start handler, in order
  gestures,         \* number of pointer-down events and save requests handled so far
  closed            \* what the renderer held when the overlay was last closed by handleClose

storeVars == <<history, historyIndex>>
storageVars == <<lsState, lsHistory>>
overlayVars == <<spotlightHoles, spotlightOverlay, cropOverlay, hasCrop, cropBounds>>
gestureVars == <<isDrawing, startPoint, currentObject, endPoint, pointerDown>>
configVars == <<spotlightShape, spotlightColor, spotlightDarkness>>
viewVars == <<numberingCounter, clipboard, savePc, saveCtx>>
editVars == <<blurPending, textToolState, secondSave>>
canvasVars == <<pc, objects, canvasCropBounds, overlayVars, gestureVars, activeTool, configVars, viewVars, editVars>>
windowVars == <<settingsWindow, overlayWindow, overlayShown, capturing>>
uploadVars == <<uploadPc, currentProgress, progressInterval, uploadWidget, widgetUpdates>>
mainVars == <<isFreshStart, ipcPending, windowVars, uploadVars>>
vars == <<storeVars, storageVars, mainVars, canvasVars, log, freshReplies, gestures, closed>>

----------------------------------------------------------------------------
(* Options and array access *)

None == <<>>
Some(x) == <<x>>

Min(a, b) == IF a < b THEN a ELSE b
Max(a, b) == IF a > b THEN a ELSE b

\* history[i] of JavaScript: undefined (None) outside 0 .. length-1
At(h, i) == IF i >= 0 /\ i < Len(h) THEN Some(h[i + 1]) ELSE None

\* Array.prototype.slice(0, end)
Slice0(h, end) == SubSeq(h, 1, Min(Max(end, 0), Len(h)))

----------------------------------------------------------------------------
(* useCanvasStore *)

MAX_HISTORY == 50

\* outcomes of one saveToStorage call: both writes succeed, the first
\* setItem throws, or the second setItem throws (the catch swallows it)
WriteOutcomes == {"ok", "throwState", "throwHistory"}

\* variant: the scene item is never written, only the history record
saveToStorage_historyOnly(h, i, ls, w) ==
  IF Len(h) > 0 /\ w # "throwHistory"
  THEN [ls EXCEPT !.hist = Some([history |-> h, historyIndex |-> i])]
  ELSE ls

saveToStorage(h, i, ls, w) ==
  IF Len(h) > 0
  THEN LET writesState == i >= 0 /\ At(h, i) # None
           afterState == IF writesState /\ w # "throwState"
                         THEN [ls EXCEPT !.state = At(h, i)]
                         ELSE ls
       IN IF (writesState /\ w = "throwState") \/ w = "throwHistory"
          THEN afterState
          ELSE [afterState EXCEPT !.hist = Some([history |-> h, historyIndex |-> i])]
  ELSE ls

clearStorage(ls) == [state |-> None, hist |-> None]

\* variant: the pushed snapshot is compared with the last entry
SameAsCurrent_last(h, i, s) == At(h, Len(h) - 1) = Some(s)

SameAsCurrent(h, i, s) == At(h, i) = Some(s)

\* variant: the entries after the current index are kept
DropRedoTail_kept(h, i) == h

DropRedoTail(h, i) == Slice0(h, i + 1)

\* variant: no limit
LimitHistory_none(nh) == nh

LimitHistory(nh) == IF Len(nh) > MAX_HISTORY THEN Tail(nh) ELSE nh

\* result of a store call: the new store fields, the new storage, the return value
pushHistory(h, i, ls, s, w) ==
  IF SameAsCurrent(h, i, s)
  THEN [history |-> h, historyIndex |-> i, ls |-> ls, ret |-> None]
  ELSE LET nh == LimitHistory(Append(DropRedoTail(h, i), s))
       IN [history |-> nh, historyIndex |-> Len(nh) - 1,
           ls |-> saveToStorage(nh, Len(nh) - 1, ls, w), ret |-> None]

\* variant: undo is refused only below index 0
UndoFails_belowZero(h, i) == i < 0

UndoFails(h, i) == i <= 0

undo(h, i, ls, w) ==
  IF UndoFails(h, i)
  THEN [history |-> h, historyIndex |-> i, ls |-> ls, ret |-> None]
  ELSE [history |-> h, historyIndex |-> i - 1,
        ls |-> saveToStorage(h, i - 1, ls, w), ret |-> At(h, i - 1)]

RedoFails(h, i) == i >= Len(h) - 1

\* variant: redo returns the entry it leaves, not the one it arrives at
redo_stale(h, i, ls, w) ==
  IF RedoFails(h, i)
  THEN [history |-> h, historyIndex |-> i, ls |-> ls, ret |-> None]
  ELSE [history |-> h, historyIndex |-> i + 1,
        ls |-> saveToStorage(h, i + 1, ls, w), ret |-> At(h, i)]

redo(h, i, ls, w) ==
  IF RedoFails(h, i)
  THEN [history |-> h, historyIndex |-> i, ls |-> ls, ret |-> None]
  ELSE [history |-> h, historyIndex |-> i + 1,
        ls |-> saveToStorage(h, i + 1, ls, w), ret |-> At(h, i + 1)]

\* variant: the list is emptied and the index is set to 0
clearHistory_indexZero(h, i, ls) ==
  [history |-> <<>>, historyIndex |-> 0, ls |-> clearStorage(ls), ret |-> None]

clearHistory(h, i, ls) ==
  [history |-> <<>>, historyIndex |-> -1, ls |-> clearStorage(ls), ret |-> None]

canUndo(h, i) == i > 0
canRedo(h, i) == i < Len(h) - 1

----------------------------------------------------------------------------
(* Scene objects, spotlight holes and snapshots *)

\* geometry attributes of a fabric object that the handlers read or set
Geom(l, t, w, h, r) == [left |-> l, top |-> t, width |-> w, height |-> h, radius |-> r]
NoGeom == Geom(0, 0, 0, 0, 0)

\* a canvas object: type is the fabric class, kind is data.type, style holds the
\* fill of an overlay, clip the holes of its clipPath; ref names the module-level
\* reference that points at this very object ("spot" = overlayState.spotlightOverlay,
\* "crop" = overlayState.cropOverlay, "cur" = currentObjectRef.current,
\* "active" = canvas.getActiveObject(), else "none")
Obj(type, kind, geom, style, clip, ref) ==
  [type |-> type, kind |-> kind, geom |-> geom, style |-> style, clip |-> clip, ref |-> ref, visible |-> TRUE]

\* canvas.remove(x) for the object a reference points at (no-op if it is not on the canvas)
RemoveRef(objs, r) == SelectSeq(objs, LAMBDA o : o.ref # r)

\* the reference r is overwritten or nulled: no canvas object is the referent any more
Untag(objs, r) == [k \in 1..Len(objs) |-> IF objs[k].ref = r THEN [objs[k] EXCEPT !.ref = "none"] ELSE objs[k]]

\* canvas.getObjects().find(pred): index of the first match, 0 if none
FindFirst(objs, kind) ==
  IF \E k \in 1..Len(objs) : objs[k].kind = kind
  THEN CHOOSE k \in 1..Len(objs) : objs[k].kind = kind /\ \A j \in 1..(k - 1) : objs[j].kind # kind
  ELSE 0

RemoveAt(objs, k) == IF k = 0 THEN objs ELSE SubSeq(objs, 1, k - 1) \o SubSeq(objs, k + 1, Len(objs))

\* variant: canvas.add(o) alone, the object stays on top
AddAtBack_onTop(objs, o) == Append(objs, o)

\* canvas.add(o); canvas.sendToBack(o)
AddAtBack(objs, o) == <<o>> \o objs

\* canvas.toJSON([...]): the serialized objects carry no object identity
toJSON(objs) == [k \in 1..Len(objs) |-> [objs[k] EXCEPT !.ref = "none"]]

\* canvas.loadFromJSON(parsed): the canvas is cleared and filled with new objects
loadFromJSON(sobjs) == sobjs

\* new fabric.Circle / fabric.Rect hole
CircleHole(l, t, r) == [type |-> "circle", left |-> l, top |-> t, radius |-> r, width |-> 0, height |-> 0, rx |-> 0]
RectHole(l, t, w, h, rx) == [type |-> "rect", left |-> l, top |-> t, radius |-> 0, width |-> w, height |-> h, rx |-> rx]

\* saveHistory: the entry of spotlightHolesData for one hole
HoleData(hole) ==
  IF hole.type = "circle"
  THEN [type |-> "circle", left |-> hole.left, top |-> hole.top, radius |-> hole.radius, width |-> 0, height |-> 0, rx |-> 0]
  ELSE [type |-> "rect", left |-> hole.left, top |-> hole.top, radius |-> 0, width |-> hole.width, height |-> hole.height, rx |-> hole.rx]

\* syncSpotlightFromHistory: the hole rebuilt from one entry of spotlightHolesData
HoleFromData(data) ==
  IF data.type = "circle"
  THEN CircleHole(data.left, data.top, data.radius)
  ELSE RectHole(data.left, data.top, data.width, data.height, data.rx)

MapSeq(f(_), q) == [k \in 1..Len(q) |-> f(q[k])]

\* the spotlight dark overlay built from the current hole list
SpotlightRect(holes, color, darkness) ==
  Obj("rect", "spotlight-overlay", NoGeom, <<color, darkness>>, holes, "spot")

\* the spotlight side-channel of a snapshot
SpotMeta(holes, color, darkness) ==
  [spotlightHoleCount |-> Len(holes), spotlightHolesData |-> MapSeq(HoleData, holes),
   spotlightColor |-> color, spotlightDarkness |-> darkness]

\* a snapshot: the serialized scene, and the spotlight fields when saveHistory wrote them
Snapshot(objs, meta) == [objects |-> toJSON(objs), spot |-> meta]

DEFAULT_COLOR == "#000000"
DEFAULT_DARKNESS == 70

\* parsed.spotlightHoleCount || 0, parsed.spotlightHolesData || [], ... of a parsed snapshot
ParsedHoleCount(snap) == IF snap.spot = None THEN 0 ELSE snap.spot[1].spotlightHoleCount
ParsedHolesData(snap) == IF snap.spot = None THEN <<>> ELSE snap.spot[1].spotlightHolesData
ParsedColor(snap) == IF snap.spot = None THEN DEFAULT_COLOR ELSE snap.spot[1].spotlightColor
ParsedDarkness(snap) == IF snap.spot = None THEN DEFAULT_DARKNESS ELSE snap.spot[1].spotlightDarkness

----------------------------------------------------------------------------
(* Overlay side-channel state.  An overlay state is the record                *)
(* [objects, holes, spot, crop, hasCrop, cropBounds] of the canvas objects and *)
(* the fields of overlayState.                                                 *)

OS(objs, holes, spot, crop, has, bounds) ==
  [objects |-> objs, holes |-> holes, spot |-> spot, crop |-> crop, hasCrop |-> has, cropBounds |-> bounds]

CurOS == OS(objects, spotlightHoles, spotlightOverlay, cropOverlay, hasCrop, cropBounds)

\* resetOverlayState(canvas) when withCanvas, resetOverlayState() otherwise
resetOverlayState(os, withCanvas) ==
  LET objs1 == IF withCanvas /\ os.crop THEN RemoveRef(os.objects, "crop") ELSE os.objects
  IN OS(Untag(Untag(objs1, "spot"), "crop"), <<>>, FALSE, FALSE, FALSE, None)

\* updateSpotlightOverlay(canvas, w, h, darkness, color)
updateSpotlightOverlay(os, darkness, color) ==
  LET objs1 == IF os.spot THEN RemoveRef(os.objects, "spot") ELSE os.objects
  IN IF Len(os.holes) = 0
     THEN [os EXCEPT !.objects = objs1, !.spot = FALSE]
     ELSE [os EXCEPT !.objects = AddAtBack(objs1, SpotlightRect(os.holes, color, darkness)), !.spot = TRUE]

\* syncSpotlightFromHistory(canvas, holeCount, holesData, color, darkness)
syncSpotlightFromHistory(os, holeCount, holesData, color, darkness) ==
  LET objs1 == IF os.spot THEN RemoveRef(os.objects, "spot") ELSE os.objects
      objs2 == RemoveAt(objs1, FindFirst(objs1, "spotlight-overlay"))
      holes == MapSeq(HoleFromData, holesData)
  IN IF holeCount = 0 \/ Len(holesData) = 0
     THEN [os EXCEPT !.objects = objs2, !.holes = <<>>, !.spot = FALSE]
     ELSE [os EXCEPT !.objects = AddAtBack(objs2, SpotlightRect(holes, color, darkness)),
                     !.holes = holes, !.spot = TRUE]

\* syncCropStateFromCanvas(canvas), given (canvas as any).cropBounds
syncCropStateFromCanvas(os, canvasBounds) ==
  LET k == FindFirst(os.objects, "crop-overlay")
  IN IF k # 0
     THEN [os EXCEPT !.objects = [j \in 1..Len(os.objects) |->
                                    IF j = k THEN [os.objects[j] EXCEPT !.ref = "crop"]
                                    ELSE IF os.objects[j].ref = "crop" THEN [os.objects[j] EXCEPT !.ref = "none"]
                                    ELSE os.objects[j]],
                     !.crop = TRUE, !.hasCrop = TRUE,
                     !.cropBounds = IF canvasBounds # None THEN canvasBounds ELSE os.cropBounds]
     ELSE [os EXCEPT !.objects = Untag(os.objects, "crop"), !.crop = FALSE, !.hasCrop = FALSE, !.cropBounds = None]

\* createCropOverlay(bounds, w, h)
createCropOverlay(bounds) == Obj("group", "crop-overlay", bounds, <<>>, <<>>, "crop")

\* the JSON that saveHistory pushes
HistorySnapshot(objs, holes, color, darkness) == Snapshot(objs, Some(SpotMeta(holes, color, darkness)))

\* the JSON that initCanvas pushes and handleClose stores: canvas.toJSON alone
PlainSnapshot(objs) == Snapshot(objs, None)


----------------------------------------------------------------------------
(* Pointer gestures: geometry of the preview object *)

Pt(x, y) == [x |-> x, y |-> y]
Abs(n) == IF n < 0 THEN -n ELSE n

MIN_SIZE == 10
ROUNDED_RADIUS == 16

\* variant: Shift does not constrain the rectangle
RectDragGeom_free(g, start, p, shift, alt) ==
  LET w0 == Abs(p.x - start.x)
      h0 == Abs(p.y - start.y)
  IN IF alt
     THEN [g EXCEPT !.left = start.x - w0, !.top = start.y - h0, !.width = w0 * 2, !.height = h0 * 2]
     ELSE [g EXCEPT !.left = Min(start.x, p.x), !.top = Min(start.y, p.y), !.width = w0, !.height = h0]

\* handleMouseMove, case "rectangle" / "blur" / "crop"
RectDragGeom(g, start, p, shift, alt) ==
  LET w0 == Abs(p.x - start.x)
      h0 == Abs(p.y - start.y)
      cw == IF shift THEN Max(w0, h0) ELSE w0
      ch == IF shift THEN Max(w0, h0) ELSE h0
  IN IF alt
     THEN [g EXCEPT !.left = start.x - cw, !.top = start.y - ch, !.width = cw * 2, !.height = ch * 2]
     ELSE [g EXCEPT !.left = IF shift THEN (IF p.x >= start.x THEN start.x ELSE start.x - cw) ELSE Min(start.x, p.x),
                    !.top = IF shift THEN (IF p.y >= start.y THEN start.y ELSE start.y - ch) ELSE Min(start.y, p.y),
                    !.width = cw, !.height = ch]

\* handleMouseMove, case "spotlight"
SpotlightDragGeom(g, shape, start, p, shift, alt) ==
  LET w0 == Abs(p.x - start.x)
      h0 == Abs(p.y - start.y)
      cw == IF shift THEN Max(w0, h0) ELSE w0
      ch == IF shift THEN Max(w0, h0) ELSE h0
      w == IF shift THEN Max(cw, ch) ELSE cw
      h == IF shift THEN Max(cw, ch) ELSE ch
  IN IF shape = "circle"
     THEN IF alt
          THEN [g EXCEPT !.left = start.x, !.top = start.y, !.radius = Max(cw, ch)]
          ELSE [g EXCEPT !.left = (start.x + p.x) \div 2, !.top = (start.y + p.y) \div 2, !.radius = Max(cw, ch) \div 2]
     ELSE IF alt
          THEN [g EXCEPT !.left = start.x - w, !.top = start.y - h, !.width = w * 2, !.height = h * 2]
          ELSE [g EXCEPT !.left = IF shift THEN (IF p.x >= start.x THEN start.x ELSE start.x - w) ELSE Min(start.x, p.x),
                         !.top = IF shift THEN (IF p.y >= start.y THEN start.y ELSE start.y - h) ELSE Min(start.y, p.y),
                         !.width = w, !.height = h]

\* handleMouseMove, case "ellipse" (width / height hold 2 * rx / 2 * ry)
EllipseDragGeom(g, start, p, shift, alt) ==
  LET w0 == Abs(p.x - start.x)
      h0 == Abs(p.y - start.y)
      cw == IF shift THEN Max(w0, h0) ELSE w0
      ch == IF shift THEN Max(w0, h0) ELSE h0
  IN IF alt
     THEN [g EXCEPT !.left = start.x, !.top = start.y, !.width = cw * 2, !.height = (IF shift THEN cw ELSE ch) * 2]
     ELSE [g EXCEPT !.left = (start.x + (IF shift THEN (IF p.x >= start.x THEN start.x + cw ELSE start.x - cw) ELSE p.x)) \div 2,
                    !.top = (start.y + (IF shift THEN (IF p.y >= start.y THEN start.y + ch ELSE start.y - ch) ELSE p.y)) \div 2,
                    !.width = cw, !.height = IF shift THEN cw ELSE ch]

\* createArrowPreview(x1, y1, x2, y2, ...) / createArrow(x1, y1, x2, y2, ...):
\* left / top hold the start, width / height the vector to the end
ArrowPreview(start, end) ==
  Obj("group", "arrow-preview", Geom(start.x, start.y, end.x - start.x, end.y - start.y, 0), <<>>, <<>>, "cur")
createArrow(start, end) ==
  Obj("group", "arrow", Geom(start.x, start.y, end.x - start.x, end.y - start.y, 0), <<>>, <<>>, "active")

\* handleMouseUp, arrow: Math.sqrt(dx^2 + dy^2) > 10
ArrowLongEnough(start, end) ==
  (end.x - start.x) * (end.x - start.x) + (end.y - start.y) * (end.y - start.y) > MIN_SIZE * MIN_SIZE

\* handleMouseDown: the preview object created for the tool (None: no preview)
PreviewFor(tool, shape, p) ==
  CASE tool = "rectangle" -> Some(Obj("rect", "rectangle", Geom(p.x, p.y, 0, 0, 0), <<>>, <<>>, "cur"))
    [] tool = "spotlight" /\ shape = "circle" ->
         Some(Obj("circle", "spotlight-preview", Geom(p.x, p.y, 0, 0, 0), <<>>, <<>>, "cur"))
    [] tool = "spotlight" /\ shape # "circle" ->
         Some(Obj("rect", "spotlight-preview", Geom(p.x, p.y, 0, 0, 0),
                  <<IF shape = "rounded" THEN ROUNDED_RADIUS ELSE 0>>, <<>>, "cur"))
    [] tool = "crop" -> Some(Obj("rect", "crop-preview", Geom(p.x, p.y, 0, 0, 0), <<>>, <<>>, "cur"))
    [] tool = "ellipse" -> Some(Obj("ellipse", "ellipse", Geom(p.x, p.y, 0, 0, 0), <<>>, <<>>, "cur"))
    [] tool = "arrow" -> Some(ArrowPreview(p, p))
    [] tool = "line" -> Some(Obj("line", "line", Geom(p.x, p.y, 0, 0, 0), <<>>, <<>>, "cur"))
    [] tool = "blur" -> Some(Obj("rect", "blur-preview", Geom(p.x, p.y, 0, 0, 0), <<>>, <<>>, "cur"))
    [] OTHER -> None

\* handleMouseUp, spotlight: the hole made from the preview (None below the size threshold)
HoleFromPreview(obj, shape) ==
  IF shape = "circle"
  THEN IF obj.geom.radius > MIN_SIZE
       THEN Some(CircleHole(obj.geom.left, obj.geom.top, obj.geom.radius))
       ELSE None
  ELSE IF obj.geom.width > MIN_SIZE /\ obj.geom.height > MIN_SIZE
       THEN Some(RectHole(obj.geom.left, obj.geom.top, obj.geom.width, obj.geom.height,
                          IF shape = "rounded" THEN ROUNDED_RADIUS ELSE 0))
       ELSE None

\* obj.set(...) on the object currentObjectRef points at, seen through the canvas
SetCur(objs, o) == [k \in 1..Len(objs) |-> IF objs[k].ref = "cur" THEN o ELSE objs[k]]


----------------------------------------------------------------------------
(* Bounds and input sets of the model *)

MaxStoreLen == 3     \* SpecPersist: pushes are offered while the history is shorter than this
MaxGestures == 1     \* Spec: at most this many pointer-down events are offered
LifeGestures == 1    \* SpecLife: at most this many pointer-down events are offered
MaxOpens == 2        \* SpecLife: the overlay is opened at most this many times
CropGestures == 2    \* SpecCrop: at most this many pointer-down events are offered
SpotGestures == 2    \* SpecSpot: at most this many pointer-down events are offered
AddGestures == 2     \* SpecAdd: at most this many pointer-down events are offered
ShiftGestures == 2   \* SpecShift: at most this many pointer-down events are offered
MaxShows == 2        \* SpecWindows: at most this many showOverlay calls and overlay windows
GuardGestures == 2   \* SpecGuard: at most this many pointer-down events are offered
SaveGestures == 2    \* SpecSave: at most this many pointer-down events and save requests are offered
BackGestures == 1    \* SpecBack: at most this many further pointer-down events are offered
ShapeGestures == 2   \* SpecShapes: at most this many further pointer-down events are offered
TintGestures == 2    \* SpecTint: at most this many pointer-down events are offered
ToolGestures == 1    \* SpecTools: at most this many pointer-down events are offered
TwoSaveGestures == 3 \* SpecTwoSaves: at most this many pointer-down events and save requests are offered
TextGestures == 3    \* SpecText: at most this many pointer-down events are offered
BlurGestures == 2    \* SpecBlur: at most this many pointer-down events are offered
LoadGestures == 1    \* SpecLoad: at most this many pointer-down events are offered
DelGestures == 1     \* SpecDelete: at most this many further pointer-down events are offered

Tools == {"select", "rectangle", "spotlight"}
Shapes == {"circle", "rounded"}
SpotlightStyles == {<<DEFAULT_COLOR, DEFAULT_DARKNESS>>, <<"#ff0000", 30>>}

StartPoint == Pt(20, 20)
SmallDrag == Pt(26, 24)      \* 6 by 4: below the size threshold
BigDrag == Pt(60, 40)        \* 40 by 20: above the size threshold
DragPoints == {SmallDrag, BigDrag}
BigDrags == {BigDrag}
\* SpecShift: 120 by 80 to the lower right, 80 by 120, and 15 by 10 to the upper left
ShiftDrags == {Pt(140, 100), Pt(100, 140), Pt(5, 10)}
Modifiers == [shift : BOOLEAN, alt : BOOLEAN]

SampleRect == Obj("rect", "rectangle", Geom(20, 20, 40, 20, 0), <<>>, <<>>, "none")
EmptyScene == PlainSnapshot(<<>>)
RectScene == HistorySnapshot(<<SampleRect>>, <<>>, DEFAULT_COLOR, DEFAULT_DARKNESS)

\* snapshots handed to the store API in SpecStore / SpecPersist
StoreSnapshots == {EmptyScene, RectScene}

\* what localStorage may hold when the process starts: nothing, or the
\* state a previous run of the application left behind
PriorStorage ==
  {[state |-> None, hist |-> None],
   [state |-> Some(RectScene), hist |-> Some([history |-> <<EmptyScene, RectScene>>, historyIndex |-> 1])]}

\* a scene item that JSON.parse rejects
Unparsable == [unparsable |-> TRUE]

\* localStorage with a scene item that is not JSON, with or without a
\* history record beside it, or with what a previous run left behind
DamagedStorage ==
  {[state |-> Some(Unparsable), hist |-> None],
   [state |-> Some(Unparsable), hist |-> Some([history |-> <<EmptyScene, RectScene>>, historyIndex |-> 1])],
   [state |-> Some(RectScene), hist |-> Some([history |-> <<EmptyScene, RectScene>>, historyIndex |-> 1])]}

----------------------------------------------------------------------------
(* State after construction *)

LS == [state |-> lsState, hist |-> lsHistory]

\* one observed call: the operation, its argument, the outcome w of its storage
\* write, the store (h, i) before it, its return value, whether it took effect
\* (a push that was not coalesced, an undo / redo that succeeded), and the
\* operation and effect of the call before it
LogRec(op, arg, w, h, i, ret, eff, prev) ==
  [op |-> op, arg |-> arg, w |-> w, h |-> h, i |-> i, ret |-> ret, eff |-> eff, prev |-> prev]
NoLog == LogRec("none", None, "ok", <<>>, -1, None, FALSE, <<"none", FALSE>>)
Prev == <<log.op, log.eff>>

\* the renderer before the overlay window exists / after it was destroyed
RendererInit ==
  /\ history = <<>>
  /\ historyIndex = -1
  /\ pc = "closed"
  /\ objects = <<>>
  /\ canvasCropBounds = None
  /\ spotlightHoles = <<>>
  /\ spotlightOverlay = FALSE
  /\ cropOverlay = FALSE
  /\ hasCrop = FALSE
  /\ cropBounds = None
  /\ isDrawing = FALSE
  /\ startPoint = None
  /\ currentObject = None
  /\ endPoint = None
  /\ pointerDown = FALSE
  /\ activeTool = "select"
  /\ spotlightShape = "circle"
  /\ spotlightColor = DEFAULT_COLOR
  /\ spotlightDarkness = DEFAULT_DARKNESS
  /\ numberingCounter = 1
  /\ clipboard = None
  /\ savePc = "idle"
  /\ saveCtx = None
  /\ secondSave = None
  /\ blurPending = <<>>
  /\ textToolState = "idle"

\* the application has started; localStorage holds one of the records in S
Started(S) ==
  /\ RendererInit
  /\ \E ls \in S : lsState = ls.state /\ lsHistory = ls.hist
  /\ isFreshStart = TRUE
  /\ ipcPending = 0
  /\ settingsWindow = FALSE
  /\ overlayWindow = FALSE
  /\ overlayShown = FALSE
  /\ capturing = 0
  /\ uploadPc = "idle"
  /\ currentProgress = 0
  /\ progressInterval = FALSE
  /\ uploadWidget = FALSE
  /\ widgetUpdates = <<>>
  /\ log = NoLog
  /\ freshReplies = <<>>
  /\ gestures = 0
  /\ closed = None

Init == Started(PriorStorage)

----------------------------------------------------------------------------
(* Calls on the store API (SpecStore, SpecPersist) *)

SetStore(r) ==
  /\ history' = r.history
  /\ historyIndex' = r.historyIndex
  /\ lsState' = r.ls.state
  /\ lsHistory' = r.ls.hist

ApiPushHistory(S, W, cap) ==
  \E s \in S, w \in W :
    /\ Len(history) < cap
    /\ SetStore(pushHistory(history, historyIndex, LS, s, w))
    /\ log' = LogRec("pushHistory", Some(s), w, history, historyIndex, None,
                     ~SameAsCurrent(history, historyIndex, s), Prev)
    /\ UNCHANGED <<mainVars, canvasVars, freshReplies, gestures, closed>>

ApiUndo(W) ==
  \E w \in W :
    LET r == undo(history, historyIndex, LS, w)
    IN /\ SetStore(r)
       /\ log' = LogRec("undo", None, w, history, historyIndex, r.ret, r.ret # None, Prev)
       /\ UNCHANGED <<mainVars, canvasVars, freshReplies, gestures, closed>>

ApiRedo(W) ==
  \E w \in W :
    LET r == redo(history, historyIndex, LS, w)
    IN /\ SetStore(r)
       /\ log' = LogRec("redo", None, w, history, historyIndex, r.ret, r.ret # None, Prev)
       /\ UNCHANGED <<mainVars, canvasVars, freshReplies, gestures, closed>>

ApiClearHistory ==
  /\ SetStore(clearHistory(history, historyIndex, LS))
  /\ log' = LogRec("clearHistory", None, "ok", history, historyIndex, None, TRUE, Prev)
  /\ UNCHANGED <<mainVars, canvasVars, freshReplies, gestures, closed>>

\* the history engine alone, storage writes succeeding, up to the real capacity
NextStore ==
  \/ ApiPushHistory(StoreSnapshots, {"ok"}, MAX_HISTORY + 1)
  \/ ApiUndo({"ok"})
  \/ ApiRedo({"ok"})
  \/ ApiClearHistory

SpecStore == Init /\ [][NextStore]_vars

\* the history engine with storage writes that may throw
NextPersist ==
  \/ ApiPushHistory(StoreSnapshots, WriteOutcomes, MaxStoreLen)
  \/ ApiUndo(WriteOutcomes)
  \/ ApiRedo(WriteOutcomes)
  \/ ApiClearHistory

SpecPersist == Init /\ [][NextPersist]_vars


----------------------------------------------------------------------------
(* The overlay: main process, AnnotationCanvas, OverlayView, OptionsPanel *)

AppLog(op, arg, ret, eff) == LogRec(op, arg, "ok", <<>>, -1, ret, eff, <<"none", FALSE>>)

\* handlers whose outcome no property observes leave this in the log
OtherLog == AppLog("other", None, None, TRUE)

\* a redo that directly followed an undo stays on record, with the scene before
\* that undo, while the next object is being drawn
CarriedRestore ==
  IF (log.op = "keyRedo" /\ log.prev = <<"keyUndo", TRUE>>) \/ log.op = "carry"
  THEN LogRec("carry", log.arg, "ok", <<>>, -1, None, FALSE, <<"none", FALSE>>)
  ELSE OtherLog

\* a tool change during a drag on record: the scene without the preview and
\* the history
ToolSwitchLog(t) ==
  LogRec("toolSwitch", [scene |-> toJSON(RemoveRef(objects, "cur"))],
         "ok", history, historyIndex, None, TRUE, <<"none", FALSE>>)

\* the operations whose scene-before a directly following undo / redo keeps on record
ChainOps == {"delete", "style", "keyUndo"}

CanvasExists == pc # "closed"

SetOS(os) ==
  /\ objects' = os.objects
  /\ spotlightHoles' = os.holes
  /\ spotlightOverlay' = os.spot
  /\ cropOverlay' = os.crop
  /\ hasCrop' = os.hasCrop
  /\ cropBounds' = os.cropBounds

\* saveHistory(): the store call it makes for the given canvas and hole list
saveHistory(objs, holes, w) ==
  pushHistory(history, historyIndex, LS, HistorySnapshot(objs, holes, spotlightColor, spotlightDarkness), w)

\* WindowManager creates the overlay window; the renderer mounts AnnotationCanvas:
\* new canvas, resetOverlayState(), initCanvas() runs up to its await
OpenOverlay ==
  /\ pc = "closed"
  /\ Len(freshReplies) + ipcPending < MaxOpens
  /\ pc' = "requested"
  /\ ipcPending' = ipcPending + 1
  /\ settingsWindow' = FALSE
  /\ overlayWindow' = TRUE
  /\ overlayShown' = TRUE
  /\ SetOS(resetOverlayState(CurOS, FALSE))
  /\ log' = OtherLog
  /\ UNCHANGED <<storeVars, storageVars, isFreshStart, uploadVars, capturing, canvasCropBounds, gestureVars, activeTool,
                 configVars, viewVars, editVars, freshReplies, gestures, closed>>

\* variant: the handler answers without clearing the flag
CheckFreshStart_flagKept ==
  /\ ipcPending > 0
  /\ freshReplies' = Append(freshReplies, isFreshStart)
  /\ isFreshStart' = isFreshStart
  /\ ipcPending' = ipcPending - 1
  /\ pc' = IF pc = "requested" /\ ipcPending = 1 THEN "replied" ELSE pc
  /\ UNCHANGED <<storeVars, storageVars, windowVars, uploadVars, objects, canvasCropBounds, overlayVars, gestureVars,
                 activeTool, configVars, viewVars, editVars, log, gestures, closed>>

\* ipcMain.handle('check-fresh-start'); the reply reaches the renderer that
\* asked unless its window is gone
CheckFreshStart ==
  /\ ipcPending > 0
  /\ freshReplies' = Append(freshReplies, isFreshStart)
  /\ isFreshStart' = FALSE
  /\ ipcPending' = ipcPending - 1
  /\ pc' = IF pc = "requested" /\ ipcPending = 1 THEN "replied" ELSE pc
  /\ UNCHANGED <<storeVars, storageVars, windowVars, uploadVars, objects, canvasCropBounds, overlayVars, gestureVars,
                 activeTool, configVars, viewVars, editVars, log, gestures, closed>>

\* loadHistoryFromStorage()
loadHistoryFromStorage(h, i, ls) ==
  IF ls.hist # None
  THEN [history |-> ls.hist[1].history, historyIndex |-> ls.hist[1].historyIndex]
  ELSE [history |-> h, historyIndex |-> i]

\* initCanvas, restore path: the overlay state after canvas.loadFromJSON and its callback
RestoreScene(os, parsed) ==
  LET loaded == [os EXCEPT !.objects = loadFromJSON(parsed.objects)]
  IN IF parsed.spot # None /\ parsed.spot[1].spotlightHoleCount > 0
     THEN syncSpotlightFromHistory(loaded, parsed.spot[1].spotlightHoleCount, parsed.spot[1].spotlightHolesData,
                                   ParsedColor(parsed), ParsedDarkness(parsed))
     ELSE loaded

\* JSON.parse(savedState) returns
Parses(s) == "objects" \in DOMAIN s

\* initCanvas, "No state to restore, save initial empty state"
InitialPush(h, i, ls, objs, w) == pushHistory(h, i, ls, PlainSnapshot(objs), w)

\* initCanvas after `await checkFreshStart()`; a scene item that does not
\* parse throws into the empty catch and the handler goes on to the push
InitCanvasResume(W) ==
  \E w \in W :
    LET isFresh == freshReplies[Len(freshReplies)]
        ls1 == IF isFresh THEN clearStorage(LS) ELSE LS
        shouldRestore == ~isFresh
        pushed == InitialPush(history, historyIndex, ls1, objects, w)
    IN /\ pc = "replied"
       /\ pc' = "ready"
       /\ IF shouldRestore /\ ls1.state # None /\ Parses(ls1.state[1])
          THEN LET st == loadHistoryFromStorage(history, historyIndex, ls1)
               IN /\ SetOS(RestoreScene(CurOS, ls1.state[1]))
                  /\ history' = st.history
                  /\ historyIndex' = st.historyIndex
                  /\ UNCHANGED storageVars
          ELSE /\ SetStore(pushed)
               /\ UNCHANGED <<objects, overlayVars>>
       /\ log' = LogRec("initCanvas", <<isFresh, LS, objects>>, w, history, historyIndex, None, TRUE, <<"none", FALSE>>)
       /\ UNCHANGED <<mainVars, canvasCropBounds, gestureVars, activeTool, configVars, viewVars, editVars, freshReplies, gestures, closed>>

\* the renderer process ends with its window: store, overlayState, refs and tool store are gone
RendererFresh ==
  /\ history' = <<>>
  /\ historyIndex' = -1
  /\ objects' = <<>>
  /\ canvasCropBounds' = None
  /\ spotlightHoles' = <<>>
  /\ spotlightOverlay' = FALSE
  /\ cropOverlay' = FALSE
  /\ hasCrop' = FALSE
  /\ cropBounds' = None
  /\ isDrawing' = FALSE
  /\ startPoint' = None
  /\ currentObject' = None
  /\ endPoint' = None
  /\ pointerDown' = FALSE
  /\ activeTool' = "select"
  /\ spotlightShape' = "circle"
  /\ spotlightColor' = DEFAULT_COLOR
  /\ spotlightDarkness' = DEFAULT_DARKNESS
  /\ numberingCounter' = 1
  /\ clipboard' = None
  /\ savePc' = "idle"
  /\ saveCtx' = None
  /\ secondSave' = None
  /\ blurPending' = <<>>
  /\ textToolState' = "idle"

RendererGone == pc' = "closed" /\ RendererFresh

\* OverlayView.handleClose (Escape, close button), then the window is closed
HandleClose ==
  /\ CanvasExists
  /\ lsState' = Some(PlainSnapshot(objects))
  /\ closed' = Some([scene |-> toJSON(objects), holes |-> spotlightHoles,
                     history |-> history, historyIndex |-> historyIndex, ready |-> pc = "ready"])
  /\ RendererGone
  /\ overlayWindow' = FALSE
  /\ overlayShown' = FALSE
  /\ log' = AppLog("handleClose", None, None, TRUE)
  /\ UNCHANGED <<lsHistory, isFreshStart, uploadVars, ipcPending, settingsWindow, capturing, freshReplies, gestures>>

\* variant: the empty scene is pushed as the new first entry
HandleClear_baseline ==
  /\ CanvasExists
  /\ SetStore(pushHistory(<<>>, -1, clearStorage(LS), PlainSnapshot(<<>>), "ok"))
  /\ SetOS(resetOverlayState([CurOS EXCEPT !.objects = <<>>], FALSE))
  /\ numberingCounter' = 1
  /\ log' = AppLog("handleClear", None, None, TRUE)
  /\ UNCHANGED <<mainVars, pc, canvasCropBounds, gestureVars, activeTool, configVars, clipboard, savePc, saveCtx,
                 editVars, freshReplies, gestures, closed>>

\* OverlayView.handleClear (Ctrl+Delete, clear button)
HandleClear ==
  /\ CanvasExists
  /\ SetStore(clearHistory(history, historyIndex, LS))
  /\ SetOS(resetOverlayState([CurOS EXCEPT !.objects = <<>>], FALSE))
  /\ numberingCounter' = 1
  /\ log' = AppLog("handleClear", None, None, TRUE)
  /\ UNCHANGED <<mainVars, pc, canvasCropBounds, gestureVars, activeTool, configVars, clipboard, savePc, saveCtx,
                 editVars, freshReplies, gestures, closed>>

\* setActiveTool(tool) from a tool button or a keyboard shortcut
SetActiveTool(T) ==
  \E t \in T :
    /\ CanvasExists
    /\ t # activeTool
    /\ activeTool' = t
    /\ textToolState' = IF t = "text" THEN "placing" ELSE "idle"
    /\ log' = IF log.op = "toolSwitch" THEN log
               ELSE IF CarriedRestore.op = "carry" THEN CarriedRestore
               ELSE IF isDrawing /\ currentObject # None /\ pointerDown THEN ToolSwitchLog(t)
               ELSE OtherLog
    /\ UNCHANGED <<storeVars, storageVars, mainVars, pc, objects, canvasCropBounds, overlayVars,
                   gestureVars, configVars, viewVars, blurPending, secondSave, freshReplies, gestures, closed>>

\* setConfig({spotlightShape}) from the options panel (a click: the pointer is
\* not held down over the canvas)
SetSpotlightShape(S) ==
  \E sh \in S :
    /\ CanvasExists
    /\ ~pointerDown
    /\ sh # spotlightShape
    /\ spotlightShape' = sh
    /\ log' = OtherLog
    /\ UNCHANGED <<storeVars, storageVars, mainVars, pc, objects, canvasCropBounds, overlayVars,
                   gestureVars, activeTool, spotlightColor, spotlightDarkness, viewVars, editVars, freshReplies, gestures,
                   closed>>

\* setConfig({spotlightColor}) / setConfig({spotlightDarkness}) and the effect
\* that follows the re-render: the overlay is rebuilt when holes exist
SetSpotlightStyle(S) ==
  \E st \in S :
    /\ CanvasExists
    /\ ~pointerDown
    /\ st # <<spotlightColor, spotlightDarkness>>
    /\ spotlightColor' = st[1]
    /\ spotlightDarkness' = st[2]
    /\ IF Len(spotlightHoles) = 0
       THEN UNCHANGED <<objects, overlayVars>>
       ELSE SetOS(updateSpotlightOverlay(CurOS, st[2], st[1]))
    /\ log' = LogRec("style", [scene |-> toJSON(objects), before |-> None], "ok",
                     history, historyIndex, None, TRUE, <<"none", FALSE>>)
    /\ UNCHANGED <<storeVars, storageVars, mainVars, pc, canvasCropBounds, gestureVars, activeTool,
                   spotlightShape, viewVars, editVars, freshReplies, gestures, closed>>

\* handleMouseDown for the spatial tools (returns at once for select; the
\* return for crop while a crop exists is HandleMouseDownCropGuard; text,
\* numbering, freehand and marker have their own actions).  With
\* these tools no object is evented, so the press hits no target and fabric
\* drops the selection before the handler runs.
HandleMouseDown(P, cap) ==
  \E p \in P :
    LET preview == PreviewFor(activeTool, spotlightShape, p)
    IN /\ CanvasExists
       /\ activeTool \notin {"select", "freehand", "marker", "numbering", "text"}
       /\ ~(activeTool = "crop" /\ hasCrop)
       /\ ~pointerDown
       /\ gestures < cap
       /\ gestures' = gestures + 1
       /\ pointerDown' = TRUE
       /\ isDrawing' = TRUE
       /\ startPoint' = Some(p)
       /\ IF preview # None
          THEN /\ currentObject' = preview
               /\ objects' = Append(Untag(Untag(objects, "cur"), "active"), preview[1])
          ELSE /\ UNCHANGED currentObject
               /\ objects' = Untag(objects, "active")
       /\ log' = CarriedRestore
       /\ UNCHANGED <<storeVars, storageVars, mainVars, pc, canvasCropBounds, overlayVars, endPoint, activeTool,
                      configVars, viewVars, editVars, freshReplies, closed>>

\* createNumberMarker(x, y, num, color)
createNumberMarker(p, n) == Obj("group", "numbering", Geom(p.x, p.y, 0, 0, 0), <<n>>, <<>>, "none")

\* handleMouseDown, case "numbering": the marker is added at once, the counter
\* incremented and the scene saved; startPointRef keeps the pointer
HandleMouseDownNumbering(P, W, cap) ==
  \E p \in P, w \in W :
    LET objs == Append(Untag(objects, "active"), createNumberMarker(p, numberingCounter))
    IN /\ CanvasExists
       /\ activeTool = "numbering"
       /\ ~pointerDown
       /\ gestures < cap
       /\ gestures' = gestures + 1
       /\ pointerDown' = TRUE
       /\ objects' = objs
       /\ numberingCounter' = numberingCounter + 1
       /\ isDrawing' = FALSE
       /\ startPoint' = Some(p)
       /\ SetStore(saveHistory(objs, spotlightHoles, w))
       /\ log' = LogRec("numbering", None, w, history, historyIndex, None, TRUE, Prev)
       /\ UNCHANGED <<mainVars, pc, canvasCropBounds, overlayVars, currentObject, endPoint, activeTool, configVars,
                      clipboard, savePc, saveCtx, editVars, freshReplies, closed>>

\* handleMouseDown with the crop tool while a crop exists: the handler returns
\* at once; the press is put on record with the state it found
HandleMouseDownCropGuard ==
  /\ CanvasExists
  /\ activeTool = "crop" /\ hasCrop
  /\ ~pointerDown
  /\ pointerDown' = TRUE
  /\ log' = LogRec("pressIgnored", [os |-> CurOS, ccb |-> canvasCropBounds], "ok",
                   history, historyIndex, None, FALSE, <<"none", FALSE>>)
  /\ UNCHANGED <<storeVars, storageVars, mainVars, pc, objects, canvasCropBounds, overlayVars, isDrawing,
                 startPoint, currentObject, endPoint, activeTool, configVars, viewVars, editVars, freshReplies, gestures, closed>>

\* handleMouseMove, case "line": x2 / y2 follow the pointer; the geometry
\* keeps the first point and the offset of the second
LineDragGeom(g, p) == [g EXCEPT !.width = p.x - g.left, !.height = p.y - g.top]

\* the geometry handleMouseMove sets on the preview for the active tool
MovedPreview(obj, tool, shape, start, p, shift, alt) ==
  CASE tool \in {"rectangle", "blur", "crop"} -> [obj EXCEPT !.geom = RectDragGeom(obj.geom, start, p, shift, alt)]
    [] tool = "spotlight" -> [obj EXCEPT !.geom = SpotlightDragGeom(obj.geom, shape, start, p, shift, alt)]
    [] tool = "ellipse" -> [obj EXCEPT !.geom = EllipseDragGeom(obj.geom, start, p, shift, alt)]
    [] tool = "line" -> [obj EXCEPT !.geom = LineDragGeom(obj.geom, p)]
    [] OTHER -> obj

\* a pointer move on record: the pointer, the modifier keys of the event, the
\* start point and the tool
MoveLog(p, m) ==
  LogRec("mouseMove", [p |-> p, shift |-> m.shift, alt |-> m.alt, start |-> startPoint[1], tool |-> activeTool],
         "ok", <<>>, -1, None, TRUE, <<"none", FALSE>>)

\* handleMouseMove (for the arrow tool the preview is replaced by a new one and
\* the end point recorded; Shift is not offered with the arrow and line tools)
HandleMouseMove(P, M) ==
  \E p \in P, m \in M :
    /\ CanvasExists
    /\ isDrawing /\ startPoint # None /\ currentObject # None
    /\ IF activeTool = "arrow"
       THEN /\ ~m.shift
            /\ currentObject' = Some(ArrowPreview(startPoint[1], p))
            /\ objects' = Append(RemoveRef(objects, "cur"), ArrowPreview(startPoint[1], p))
            /\ endPoint' = Some(p)
       ELSE LET moved == MovedPreview(currentObject[1], activeTool, spotlightShape, startPoint[1], p, m.shift, m.alt)
            IN /\ activeTool = "line" => ~m.shift
               /\ moved # currentObject[1]
               /\ currentObject' = Some(moved)
               /\ objects' = SetCur(objects, moved)
               /\ UNCHANGED endPoint
    /\ log' = IF log.op \in {"pressIgnored", "toolSwitch"} THEN log
               ELSE IF CarriedRestore.op = "carry" THEN CarriedRestore
               ELSE MoveLog(p, m)
    /\ UNCHANGED <<storeVars, storageVars, mainVars, pc, canvasCropBounds, overlayVars, isDrawing, startPoint,
                   pointerDown, activeTool, configVars, viewVars, editVars, freshReplies, gestures, closed>>

\* variant: the new hole replaces the hole list
SpotlightCommit_replacing(os, obj, shape, darkness, color) ==
  LET removed == [os EXCEPT !.objects = RemoveRef(os.objects, "cur")]
      hole == HoleFromPreview(obj, shape)
  IN IF hole # None
     THEN updateSpotlightOverlay([removed EXCEPT !.holes = <<hole[1]>>], darkness, color)
     ELSE removed

\* handleMouseUp, spotlight: overlay state after the preview is removed and the hole added
SpotlightCommit(os, obj, shape, darkness, color) ==
  LET removed == [os EXCEPT !.objects = RemoveRef(os.objects, "cur")]
      hole == HoleFromPreview(obj, shape)
  IN IF hole # None
     THEN updateSpotlightOverlay([removed EXCEPT !.holes = Append(os.holes, hole[1])], darkness, color)
     ELSE removed

\* handleMouseUp, crop: overlay state after the preview is removed and the crop installed
CropCommit(os, obj) ==
  LET removed == [os EXCEPT !.objects = RemoveRef(os.objects, "cur")]
      big == obj.geom.width > MIN_SIZE /\ obj.geom.height > MIN_SIZE
      bounds == Geom(obj.geom.left, obj.geom.top, obj.geom.width, obj.geom.height, 0)
      cleared == IF os.crop THEN RemoveRef(removed.objects, "crop") ELSE removed.objects
  IN IF big
     THEN [removed EXCEPT !.objects = Append(Untag(cleared, "crop"), createCropOverlay(bounds)),
                          !.crop = TRUE, !.hasCrop = TRUE, !.cropBounds = Some(bounds)]
     ELSE removed

\* canvas.setActiveObject(x) for the object the reference r points at
Activate(objs, r) ==
  [k \in 1..Len(objs) |-> IF objs[k].ref = r THEN [objs[k] EXCEPT !.ref = "active"]
                          ELSE IF objs[k].ref = "active" THEN [objs[k] EXCEPT !.ref = "none"]
                          ELSE objs[k]]

\* handleMouseUp, arrow, past the check of the two points: the preview is
\* removed and, when long enough, the arrow added and selected
ArrowCommit(os, start, end) ==
  LET removed == RemoveRef(os.objects, "cur")
  IN IF ArrowLongEnough(start, end)
     THEN [os EXCEPT !.objects = Append(Untag(removed, "active"), createArrow(start, end))]
     ELSE [os EXCEPT !.objects = removed]

ShapeTools == {"line", "rectangle", "ellipse"}

\* handleMouseUp (every tool but blur, whose branch awaits)
HandleMouseUp(W) ==
  \E w \in W :
    LET obj == currentObject[1]
        \* arrow: `if (!start || !end) return` leaves the drawing refs as they are
        arrowReturns == activeTool = "arrow" /\ (startPoint = None \/ endPoint = None)
        os == CASE activeTool = "spotlight" -> SpotlightCommit(CurOS, obj, spotlightShape, spotlightDarkness, spotlightColor)
                [] activeTool = "crop" -> CropCommit(CurOS, obj)
                [] activeTool = "arrow" ->
                     IF arrowReturns THEN [CurOS EXCEPT !.objects = RemoveRef(objects, "cur")]
                     ELSE ArrowCommit(CurOS, startPoint[1], endPoint[1])
                [] activeTool \in ShapeTools -> [CurOS EXCEPT !.objects = Activate(objects, "cur")]
                [] OTHER -> CurOS
        pushes == CASE activeTool = "spotlight" -> HoleFromPreview(obj, spotlightShape) # None
                    [] activeTool = "crop" -> obj.geom.width > MIN_SIZE /\ obj.geom.height > MIN_SIZE
                    [] activeTool = "arrow" -> ~arrowReturns /\ ArrowLongEnough(startPoint[1], endPoint[1])
                    [] activeTool \in ShapeTools -> TRUE
                    [] OTHER -> FALSE
        r == saveHistory(os.objects, os.holes, w)
    IN /\ CanvasExists
       /\ pointerDown
       /\ isDrawing /\ currentObject # None
       /\ activeTool # "blur"
       /\ pointerDown' = FALSE
       /\ SetOS([os EXCEPT !.objects = Untag(os.objects, "cur")])
       /\ canvasCropBounds' = IF activeTool = "crop" /\ pushes THEN os.cropBounds ELSE canvasCropBounds
       /\ activeTool' = IF activeTool \in ShapeTools \/ (activeTool = "arrow" /\ pushes) THEN "select" ELSE activeTool
       /\ textToolState' = IF activeTool \in ShapeTools \/ (activeTool = "arrow" /\ pushes) THEN "idle" ELSE textToolState
       /\ IF pushes THEN SetStore(r) ELSE UNCHANGED <<storeVars, storageVars>>
       /\ IF arrowReturns
          THEN UNCHANGED <<isDrawing, startPoint, currentObject, endPoint>>
          ELSE /\ isDrawing' = FALSE
               /\ startPoint' = None
               /\ currentObject' = None
               /\ endPoint' = None
       /\ log' = LogRec("mouseUp",
                        [tool |-> activeTool, os |-> CurOS, ccb |-> canvasCropBounds, obj |-> obj,
                         shape |-> spotlightShape,
                         carried |-> IF log.op = "carry" /\ log.arg.idle THEN log.arg.before ELSE None,
                         press |-> IF log.op = "pressIgnored" THEN Some(log.arg) ELSE None,
                         switched |-> IF log.op = "toolSwitch" THEN Some(log.arg) ELSE None],
                        "ok", history, historyIndex, None, pushes, <<"none", FALSE>>)
       /\ UNCHANGED <<mainVars, pc, configVars, viewVars, blurPending, secondSave, freshReplies, gestures, closed>>

\* handleMouseUp when nothing is being drawn: the handler returns at once
HandleMouseUpIdle ==
  /\ CanvasExists
  /\ pointerDown
  /\ ~(isDrawing /\ currentObject # None)
  /\ pointerDown' = FALSE
  /\ log' = IF log.op = "pressIgnored" THEN log ELSE OtherLog
  /\ UNCHANGED <<storeVars, storageVars, mainVars, pc, objects, canvasCropBounds, overlayVars, isDrawing,
                 startPoint, currentObject, endPoint, activeTool, configVars, viewVars, editVars, freshReplies, gestures, closed>>

\* the object createBlurRect resolves to for the rectangle g
createBlurRect(g) == Obj("image", "blur", Geom(g.left, g.top, g.width, g.height, 0), <<>>, <<>>, "none")

\* variant: the blur object is added without being selected
AddBlurRect_unselected(objs, g) == Append(objs, createBlurRect(g))
\* canvas.add(blurRect); canvas.setActiveObject(blurRect)
AddBlurRect(objs, g) == Append(Untag(objs, "active"), [createBlurRect(g) EXCEPT !.ref = "active"])

\* handleMouseUp, blur, up to `await createBlurRect(...)`: the preview is
\* removed; for a rectangle above the size threshold the handler waits and the
\* drawing refs stay as they are, otherwise it runs on to the reset
HandleMouseUpBlur ==
  LET obj == currentObject[1]
      big == obj.geom.width > MIN_SIZE /\ obj.geom.height > MIN_SIZE
  IN /\ CanvasExists
     /\ pointerDown
     /\ isDrawing /\ currentObject # None
     /\ activeTool = "blur"
     /\ pointerDown' = FALSE
     /\ objects' = RemoveRef(objects, "cur")
     /\ IF big
        THEN /\ blurPending' = Append(blurPending, [geom |-> obj.geom, color |-> spotlightColor,
                                                    darkness |-> spotlightDarkness])
             /\ UNCHANGED <<isDrawing, startPoint, currentObject, endPoint>>
        ELSE /\ isDrawing' = FALSE
             /\ startPoint' = None
             /\ currentObject' = None
             /\ endPoint' = None
             /\ UNCHANGED blurPending
     /\ log' = LogRec("mouseUpBlur", [scene |-> toJSON(objects'), waits |-> big], "ok",
                      history, historyIndex, None, FALSE, <<"none", FALSE>>)
     /\ UNCHANGED <<storeVars, storageVars, mainVars, pc, canvasCropBounds, overlayVars, activeTool, configVars,
                    viewVars, textToolState, secondSave, freshReplies, gestures, closed>>

\* handleMouseUp, blur, after the await, in the closure of the release: the
\* blur object is added and selected, the tool set to select, the scene saved,
\* and the drawing refs are reset
CreateBlurRectDone(W) ==
  \E k \in 1..Len(blurPending), w \in W :
    LET b == blurPending[k]
        objs == AddBlurRect(objects, b.geom)
        r == pushHistory(history, historyIndex, LS, HistorySnapshot(objs, spotlightHoles, b.color, b.darkness), w)
    IN /\ CanvasExists
       /\ blurPending' = RemoveAt(blurPending, k)
       /\ objects' = Untag(objs, "cur")
       /\ activeTool' = "select"
       /\ textToolState' = "idle"
       /\ SetStore(r)
       /\ isDrawing' = FALSE
       /\ startPoint' = None
       /\ currentObject' = None
       /\ endPoint' = None
       /\ log' = LogRec("blurDone",
                        [tool |-> "blur", scene |-> toJSON(objects), geom |-> b.geom,
                         newer |-> pointerDown /\ isDrawing /\ (\E j \in 1..Len(objects) : objects[j].ref = "cur"),
                         drawing |-> isDrawing, start |-> startPoint, cur |-> currentObject],
                        w, history, historyIndex, None, TRUE, <<"none", FALSE>>)
       /\ UNCHANGED <<mainVars, pc, canvasCropBounds, overlayVars, pointerDown, configVars, viewVars, secondSave,
                      freshReplies, gestures, closed>>

FreeDrawingTools == {"freehand", "marker"}

\* a press while canvas.isDrawingMode: handleMouseDown returns at once, the
\* brush of fabric starts a stroke
HandleMouseDownFreehand(cap) ==
  /\ CanvasExists
  /\ activeTool \in FreeDrawingTools
  /\ ~pointerDown
  /\ gestures < cap
  /\ gestures' = gestures + 1
  /\ pointerDown' = TRUE
  /\ log' = OtherLog
  /\ UNCHANGED <<storeVars, storageVars, mainVars, pc, objects, canvasCropBounds, overlayVars, isDrawing,
                 startPoint, currentObject, endPoint, activeTool, configVars, viewVars, editVars, freshReplies, closed>>

\* the release that ends a stroke: fabric adds the path and fires
\* path:created (handlePathCreated saves the scene), then mouse:up, whose
\* handler resets the drawing refs when a gesture is on record
HandlePathCreated(W) ==
  \E w \in W :
    LET objs == Append(objects, Obj("path", activeTool, NoGeom, <<>>, <<>>, "none"))
        stale == isDrawing /\ currentObject # None
    IN /\ CanvasExists
       /\ pointerDown
       /\ activeTool \in FreeDrawingTools
       /\ pointerDown' = FALSE
       /\ objects' = IF stale THEN Untag(objs, "cur") ELSE objs
       /\ SetStore(saveHistory(objs, spotlightHoles, w))
       /\ IF stale
          THEN /\ isDrawing' = FALSE
               /\ startPoint' = None
               /\ currentObject' = None
               /\ endPoint' = None
          ELSE UNCHANGED <<isDrawing, startPoint, currentObject, endPoint>>
       /\ log' = LogRec("pathCreated", [tool |-> activeTool, scene |-> toJSON(objects)], w,
                        history, historyIndex, None, TRUE, <<"none", FALSE>>)
       /\ UNCHANGED <<mainVars, pc, canvasCropBounds, overlayVars, activeTool, configVars, viewVars, editVars,
                      freshReplies, gestures, closed>>

\* an IText is in edit mode ("editing" = the active object, with its editor open)
EditorOpen(objs) == \E k \in 1..Len(objs) : objs[k].ref = "editing"

\* variant: the press places two text objects
EnterEditing_twice(objs, p) ==
  Append(Append(Untag(objs, "active"), Obj("i-text", "text", Geom(p.x, p.y, 0, 0, 0), <<>>, <<>>, "none")),
         Obj("i-text", "text", Geom(p.x, p.y, 0, 0, 0), <<>>, <<>>, "editing"))
\* new fabric.IText("Text", {...}); canvas.add(text); canvas.setActiveObject(text);
\* text.enterEditing()
EnterEditing(objs, p) ==
  Append(Untag(objs, "active"), Obj("i-text", "text", Geom(p.x, p.y, 0, 0, 0), <<>>, <<>>, "editing"))

\* the editing text is an event target: it was created evented, and the
\* tool-mode effect of a later tool change leaves it so only for select
TextEvented == activeTool = "select" \/ (activeTool = "text" /\ textToolState = "editing")

\* handleMouseDown, text tool, no editor open: a text object is placed and
\* put into edit mode
HandleMouseDownText(P, cap) ==
  \E p \in P :
    /\ CanvasExists
    /\ activeTool = "text"
    /\ ~EditorOpen(objects)
    /\ ~pointerDown
    /\ gestures < cap
    /\ gestures' = gestures + 1
    /\ pointerDown' = TRUE
    /\ objects' = IF textToolState = "editing" THEN Untag(objects, "active") ELSE EnterEditing(objects, p)
    /\ textToolState' = IF textToolState = "editing" THEN "idle" ELSE "editing"
    /\ activeTool' = IF textToolState = "editing" THEN "select" ELSE activeTool
    /\ log' = LogRec("textPress", [tool |-> activeTool, state |-> textToolState, open |-> FALSE, onText |-> FALSE],
                     "ok", history, historyIndex, None, FALSE, <<"none", FALSE>>)
    /\ UNCHANGED <<storeVars, storageVars, mainVars, pc, canvasCropBounds, overlayVars, isDrawing, startPoint,
                   currentObject, endPoint, configVars, viewVars, blurPending, secondSave, freshReplies, closed>>

\* a press while a text is in edit mode, with the text or select tool. On the
\* text nothing changes (fabric places the caret; handleMouseDown returns). Off
\* the text, fabric deselects it before mouse:down is delivered: editing
\* exits and handleTextEditingExited runs (state idle, tool select,
\* saveHistory); handleMouseDown then runs with the tool and text-tool state
\* of the render before the event
HandleMouseDownEditing(P, W, cap) ==
  \E p \in P, w \in W, onText \in BOOLEAN :
    LET exited == Untag(objects, "editing")
        places == activeTool = "text" /\ textToolState # "editing"
    IN /\ CanvasExists
       /\ activeTool \in {"text", "select"}
       /\ EditorOpen(objects)
       /\ onText => TextEvented
       /\ ~pointerDown
       /\ gestures < cap
       /\ gestures' = gestures + 1
       /\ pointerDown' = TRUE
       /\ IF onText
          THEN UNCHANGED <<storeVars, storageVars, objects, activeTool, textToolState>>
          ELSE /\ SetStore(saveHistory(exited, spotlightHoles, w))
               /\ objects' = IF places THEN EnterEditing(exited, p) ELSE exited
               /\ activeTool' = "select"
               /\ textToolState' = IF places THEN "editing" ELSE "idle"
       /\ log' = LogRec("textPress", [tool |-> activeTool, state |-> textToolState, open |-> TRUE, onText |-> onText],
                        w, history, historyIndex, None, ~onText, <<"none", FALSE>>)
       /\ UNCHANGED <<mainVars, pc, canvasCropBounds, overlayVars, isDrawing, startPoint, currentObject, endPoint,
                      configVars, viewVars, blurPending, secondSave, freshReplies, closed>>

\* Escape in the editor: fabric leaves edit mode, the text stays selected, and
\* handleTextEditingExited runs
HandleTextEditingExited(W) ==
  \E w \in W :
    LET exited == [k \in 1..Len(objects) |-> IF objects[k].ref = "editing" THEN [objects[k] EXCEPT !.ref = "active"]
                                            ELSE objects[k]]
    IN /\ CanvasExists
       /\ EditorOpen(objects)
       /\ ~pointerDown
       /\ objects' = exited
       /\ textToolState' = "idle"
       /\ activeTool' = "select"
       /\ SetStore(saveHistory(exited, spotlightHoles, w))
       /\ log' = LogRec("editingExited", [tool |-> activeTool, state |-> textToolState], w, history, historyIndex,
                        None, TRUE, <<"none", FALSE>>)
       /\ UNCHANGED <<mainVars, pc, canvasCropBounds, overlayVars, gestureVars, configVars, viewVars, blurPending,
                      secondSave, freshReplies, gestures, closed>>

OverlayKinds == {"spotlight-overlay", "crop-overlay"}

\* fabric selects the object under the pointer; the tool effect makes every
\* object but the overlays selectable while the tool is select
SelectObject ==
  \E k \in 1..Len(objects) :
    /\ CanvasExists
    /\ ~pointerDown
    /\ activeTool = "select"
    /\ objects[k].kind \notin OverlayKinds
    /\ objects[k].ref = "none"
    /\ objects' = [j \in 1..Len(objects) |-> IF j = k THEN [objects[j] EXCEPT !.ref = "active"]
                                            ELSE IF objects[j].ref = "active" THEN [objects[j] EXCEPT !.ref = "none"]
                                            ELSE objects[j]]
    /\ log' = OtherLog
    /\ UNCHANGED <<storeVars, storageVars, mainVars, pc, canvasCropBounds, overlayVars, gestureVars, activeTool,
                   configVars, viewVars, editVars, freshReplies, gestures, closed>>

\* variant: the handlers do not look at the type of the active object
DeleteRefused_never(o) == FALSE

\* `if (activeObj.data?.type === "spotlight-overlay" || ... === "crop-overlay") return;`
DeleteRefused(o) == o.kind \in OverlayKinds

\* the Delete key handler of AnnotationCanvas, canvas.getActiveObject() being
\* one of the objects K
HandleDeleteOn(W, K) ==
  \E w \in W, k \in K :
    LET left == RemoveAt(objects, k)
        refused == DeleteRefused(objects[k])
    IN /\ CanvasExists
       /\ activeTool = "select"
       /\ IF refused
          THEN UNCHANGED <<objects, storeVars, storageVars>>
          ELSE /\ objects' = left
               /\ SetStore(saveHistory(left, spotlightHoles, w))
       /\ log' = LogRec("delete", [scene |-> toJSON(objects), before |-> None, active |-> objects[k], os |-> CurOS],
                        "ok", history, historyIndex, None, ~refused, <<"none", FALSE>>)
       /\ UNCHANGED <<mainVars, pc, canvasCropBounds, overlayVars, gestureVars, activeTool, configVars, viewVars, editVars,
                      freshReplies, gestures, closed>>

\* Delete with the selected object
HandleDelete(W) == HandleDeleteOn(W, {k \in 1..Len(objects) : objects[k].ref = "active"})

\* Delete when fabric reports an overlay as the active object
HandleDeleteOverlay(W) == HandleDeleteOn(W, {k \in 1..Len(objects) : objects[k].kind \in OverlayKinds})

\* handleAdvancedKeys, Ctrl+X, canvas.getActiveObject() being one of the objects K
HandleCutOn(W, K) ==
  \E w \in W, k \in K :
    LET left == RemoveAt(objects, k)
        refused == DeleteRefused(objects[k])
    IN /\ CanvasExists
       /\ activeTool = "select"
       /\ IF refused
          THEN UNCHANGED <<objects, storeVars, storageVars, clipboard>>
          ELSE /\ clipboard' = Some([objects[k] EXCEPT !.ref = "none"])
               /\ objects' = left
               /\ SetStore(saveHistory(left, spotlightHoles, w))
       /\ log' = LogRec("cut", [scene |-> toJSON(objects), before |-> None, active |-> objects[k], os |-> CurOS],
                        "ok", history, historyIndex, None, ~refused, <<"none", FALSE>>)
       /\ UNCHANGED <<mainVars, pc, canvasCropBounds, overlayVars, gestureVars, activeTool, configVars,
                      numberingCounter, savePc, saveCtx, editVars, freshReplies, gestures, closed>>

\* Ctrl+X with the selected object
HandleCut(W) == HandleCutOn(W, {k \in 1..Len(objects) : objects[k].ref = "active"})

\* Ctrl+X when fabric reports an overlay as the active object
HandleCutOverlay(W) == HandleCutOn(W, {k \in 1..Len(objects) : objects[k].kind \in OverlayKinds})

\* what the undo / redo handlers do with the snapshot the store returned:
\* OverlayView's key handler (Ctrl+Z, Ctrl+Shift+Z)
KeyRestore(os, parsed, canvasBounds) ==
  syncCropStateFromCanvas(
    syncSpotlightFromHistory([os EXCEPT !.objects = loadFromJSON(parsed.objects)],
                             ParsedHoleCount(parsed), ParsedHolesData(parsed),
                             ParsedColor(parsed), ParsedDarkness(parsed)),
    canvasBounds)

\* OptionsPanel's handleUndo / handleRedo, after resetOverlayState(canvas)
ButtonRestore(os, parsed, canvasBounds) ==
  syncCropStateFromCanvas([os EXCEPT !.objects = loadFromJSON(parsed.objects)], canvasBounds)

\* OverlayView.handleKeyDown, Ctrl+Z (dir = "undo") and Ctrl+Shift+Z (dir = "redo")
KeyUndoRedo(W) ==
  \E w \in W, dir \in {"undo", "redo"} :
    LET r == IF dir = "undo" THEN undo(history, historyIndex, LS, w) ELSE redo(history, historyIndex, LS, w)
    IN /\ CanvasExists
       /\ r.ret # None
       /\ SetStore(r)
       /\ SetOS(KeyRestore(CurOS, r.ret[1], canvasCropBounds))
       /\ log' = LogRec(IF dir = "undo" THEN "keyUndo" ELSE "keyRedo",
                        [scene |-> toJSON(objects),
                         before |-> IF log.op \in ChainOps THEN Some(log.arg.scene) ELSE None,
                         idle |-> ~isDrawing /\ (log.op = "keyUndo" => log.arg.idle)],
                        "ok", history, historyIndex, r.ret, TRUE, Prev)
       /\ UNCHANGED <<mainVars, pc, canvasCropBounds, gestureVars, activeTool, configVars, viewVars, editVars, freshReplies, gestures, closed>>

\* OptionsPanel.handleUndo (dir = "undo") and handleRedo (dir = "redo"), the
\* toolbar buttons (a click: the pointer is not held down over the canvas);
\* each button is disabled while canUndo() / canRedo() is false
ButtonUndoRedo(W) ==
  \E w \in W, dir \in {"undo", "redo"} :
    LET r == IF dir = "undo" THEN undo(history, historyIndex, LS, w) ELSE redo(history, historyIndex, LS, w)
        os0 == resetOverlayState(CurOS, TRUE)
    IN /\ CanvasExists
       /\ ~pointerDown
       /\ IF dir = "undo" THEN canUndo(history, historyIndex) ELSE canRedo(history, historyIndex)
       /\ SetStore(r)
       /\ SetOS(IF r.ret # None THEN ButtonRestore(os0, r.ret[1], canvasCropBounds) ELSE os0)
       /\ log' = AppLog(IF dir = "undo" THEN "buttonUndo" ELSE "buttonRedo", None, r.ret, r.ret # None)
       /\ UNCHANGED <<mainVars, pc, canvasCropBounds, gestureVars, activeTool, configVars, viewVars, editVars, freshReplies, gestures, closed>>

NoModifiers == {[shift |-> FALSE, alt |-> FALSE]}

\* one session of the overlay, from the creation of its window, with every handler
Next ==
  \/ OpenOverlay
  \/ CheckFreshStart
  \/ InitCanvasResume({"ok"})
  \/ HandleClear
  \/ SetActiveTool(Tools)
  \/ SetSpotlightShape(Shapes)
  \/ SetSpotlightStyle(SpotlightStyles)
  \/ HandleMouseDown({StartPoint}, MaxGestures)
  \/ HandleMouseMove(BigDrags, NoModifiers)
  \/ HandleMouseUp({"ok"})
  \/ KeyUndoRedo({"ok"})
  \/ ButtonUndoRedo({"ok"})

Spec == Init /\ [][Next]_vars

\* the overlay closed and opened again within one run of the application,
\* the storage writes of the store having the outcomes W, the tools T in use
Life(W, T) ==
  \/ OpenOverlay
  \/ CheckFreshStart
  \/ InitCanvasResume(W)
  \/ HandleClose
  \/ HandleClear
  \/ SetActiveTool(T)
  \/ HandleMouseDown({StartPoint}, LifeGestures)
  \/ HandleMouseMove(BigDrags, NoModifiers)
  \/ HandleMouseUp(W)
  \/ KeyUndoRedo(W)

NextLife == Life({"ok"}, {"rectangle", "spotlight"})

SpecLife == Init /\ [][NextLife]_vars

\* the same with storage writes that may throw, drawing rectangles only
NextLifeWrites == Life(WriteOutcomes, {"rectangle"})

SpecLifeWrites == Init /\ [][NextLifeWrites]_vars

\* the crop tool and the arrow tool, with undo / redo by key and by button,
\* over a close and reopen of the overlay
NextCrop ==
  \/ OpenOverlay
  \/ CheckFreshStart
  \/ InitCanvasResume({"ok"})
  \/ HandleClose
  \/ SetActiveTool({"crop", "arrow"})
  \/ HandleMouseDown({StartPoint}, CropGestures)
  \/ HandleMouseDownCropGuard
  \/ HandleMouseMove(BigDrags, NoModifiers)
  \/ HandleMouseUp({"ok"})
  \/ HandleMouseUpIdle
  \/ KeyUndoRedo({"ok"})
  \/ ButtonUndoRedo({"ok"})

SpecCrop == Init /\ [][NextCrop]_vars

\* one session with the spotlight tool, its darkness / colour setting, undo /
\* redo by key and by button, and clear-all
NextSpot ==
  \/ OpenOverlay
  \/ CheckFreshStart
  \/ InitCanvasResume({"ok"})
  \/ HandleClear
  \/ SetActiveTool({"spotlight"})
  \/ SetSpotlightStyle(SpotlightStyles)
  \/ HandleMouseDown({StartPoint}, SpotGestures)
  \/ HandleMouseMove(BigDrags, NoModifiers)
  \/ HandleMouseUp({"ok"})
  \/ KeyUndoRedo({"ok"})
  \/ ButtonUndoRedo({"ok"})

SpecSpot == Init /\ [][NextSpot]_vars

\* the first overlay of a run once initCanvas has finished undisturbed: the
\* storage was cleared and the empty scene is the only history entry
ReadyState ==
  /\ history = <<EmptyScene>>
  /\ historyIndex = 0
  /\ lsState = Some(EmptyScene)
  /\ lsHistory = Some([history |-> <<EmptyScene>>, historyIndex |-> 0])
  /\ pc = "ready"
  /\ objects = <<>>
  /\ canvasCropBounds = None
  /\ spotlightHoles = <<>>
  /\ spotlightOverlay = FALSE
  /\ cropOverlay = FALSE
  /\ hasCrop = FALSE
  /\ cropBounds = None
  /\ isDrawing = FALSE
  /\ startPoint = None
  /\ currentObject = None
  /\ endPoint = None
  /\ pointerDown = FALSE
  /\ activeTool = "select"
  /\ spotlightShape = "circle"
  /\ spotlightColor = DEFAULT_COLOR
  /\ spotlightDarkness = DEFAULT_DARKNESS
  /\ numberingCounter = 1
  /\ clipboard = None
  /\ savePc = "idle"
  /\ saveCtx = None
  /\ secondSave = None
  /\ blurPending = <<>>
  /\ textToolState = "idle"
  /\ isFreshStart = FALSE
  /\ ipcPending = 0
  /\ settingsWindow = FALSE
  /\ overlayWindow = TRUE
  /\ overlayShown = TRUE
  /\ capturing = 0
  /\ uploadPc = "idle"
  /\ currentProgress = 0
  /\ progressInterval = FALSE
  /\ uploadWidget = FALSE
  /\ widgetUpdates = <<>>
  /\ freshReplies = <<TRUE>>
  /\ gestures = 0
  /\ closed = None

InitReady == ReadyState /\ log = NoLog

\* WindowManager.showOverlay up to `await this.captureScreenForOverlay(bounds)`
ShowOverlay ==
  /\ capturing + Len(freshReplies) + ipcPending < MaxShows
  /\ settingsWindow' = FALSE
  /\ capturing' = capturing + 1
  /\ UNCHANGED <<storeVars, storageVars, isFreshStart, uploadVars, ipcPending, overlayWindow, overlayShown, canvasVars, log,
                 freshReplies, gestures, closed>>

\* a new overlay window (destroying the one that exists): its renderer mounts
\* and asks for the fresh-start flag; the window is not shown yet
NewOverlayWindow ==
  /\ overlayWindow' = TRUE
  /\ overlayShown' = FALSE
  /\ pc' = "requested"
  /\ ipcPending' = ipcPending + 1
  /\ RendererFresh

\* WindowManager.showOverlay after the capture
ShowOverlayResume ==
  /\ capturing > 0
  /\ capturing' = capturing - 1
  /\ NewOverlayWindow
  /\ UNCHANGED <<storageVars, isFreshStart, uploadVars, settingsWindow, log, freshReplies, gestures, closed>>

\* WindowManager.showOverlayWithImage
ShowOverlayWithImage ==
  /\ capturing + Len(freshReplies) + ipcPending < MaxShows
  /\ settingsWindow' = FALSE
  /\ NewOverlayWindow
  /\ UNCHANGED <<storageVars, isFreshStart, uploadVars, capturing, log, freshReplies, gestures, closed>>

\* the 'ready-to-show' handler of the overlay window
OverlayReadyToShow ==
  /\ overlayWindow /\ ~overlayShown
  /\ overlayShown' = TRUE
  /\ UNCHANGED <<storeVars, storageVars, isFreshStart, uploadVars, ipcPending, settingsWindow, overlayWindow, capturing,
                 canvasVars, log, freshReplies, gestures, closed>>

\* WindowManager.hideOverlay
HideOverlay ==
  /\ overlayWindow' = FALSE
  /\ overlayShown' = FALSE
  /\ RendererGone

\* WindowManager.toggleOverlay
ToggleOverlay ==
  IF overlayWindow /\ overlayShown
  THEN /\ HideOverlay
       /\ UNCHANGED <<storageVars, isFreshStart, uploadVars, ipcPending, settingsWindow, capturing, log, freshReplies,
                      gestures, closed>>
  ELSE ShowOverlay

\* WindowManager.openSettings
OpenSettings ==
  /\ ~(settingsWindow /\ ~overlayWindow)
  /\ IF overlayWindow THEN HideOverlay ELSE UNCHANGED <<storeVars, canvasVars, overlayWindow, overlayShown>>
  /\ settingsWindow' = TRUE
  /\ UNCHANGED <<storageVars, isFreshStart, uploadVars, ipcPending, capturing, log, freshReplies, gestures, closed>>

\* the settings window is closed by its user ('closed' handler)
CloseSettings ==
  /\ settingsWindow
  /\ settingsWindow' = FALSE
  /\ UNCHANGED <<storeVars, storageVars, isFreshStart, uploadVars, ipcPending, overlayWindow, overlayShown, capturing,
                 canvasVars, log, freshReplies, gestures, closed>>

----------------------------------------------------------------------------
(* The main process: ipcMain.handle('upload-image') *)

\* the simulated progress stops rising here
PROGRESS_CAP == 45
PROGRESS_STEP == 5

\* an 'upload-widget-update' message
Update(state, progress) == [state |-> state, progress |-> progress]

\* WindowManager.sendUploadWidgetUpdate: sent only while the widget exists
sendUploadWidgetUpdate(sent, widget, u) == IF widget THEN Append(sent, u) ELSE sent

\* sendProgress(stage, progress): the update it sends has the state uploading
sendProgress(sent, widget, progress) == sendUploadWidgetUpdate(sent, widget, Update("uploading", progress))

\* the handler up to `await fetch(uploadUrl, ...)`: the overlay is closed, the
\* widget shown, the first progress sent and the interval started
UploadImage ==
  /\ CanvasExists
  /\ uploadPc = "idle"
  /\ HideOverlay
  /\ uploadWidget' = TRUE
  /\ widgetUpdates' = sendProgress(widgetUpdates, TRUE, 10)
  /\ currentProgress' = 10
  /\ progressInterval' = TRUE
  /\ uploadPc' = "fetch"
  /\ log' = AppLog("upload", None, None, TRUE)
  /\ UNCHANGED <<storageVars, isFreshStart, ipcPending, settingsWindow, capturing, freshReplies, gestures, closed>>

\* the callback of setInterval(..., 200) (a tick at the cap changes nothing)
ProgressTick ==
  /\ progressInterval
  /\ currentProgress < PROGRESS_CAP
  /\ currentProgress' = currentProgress + PROGRESS_STEP
  /\ widgetUpdates' = sendProgress(widgetUpdates, uploadWidget, currentProgress')
  /\ UNCHANGED <<storeVars, storageVars, isFreshStart, ipcPending, windowVars, uploadPc, progressInterval,
                 uploadWidget, canvasVars, log, freshReplies, gestures, closed>>

UploadUnchanged ==
  UNCHANGED <<storeVars, storageVars, isFreshStart, ipcPending, windowVars, currentProgress, uploadWidget,
              canvasVars, log, freshReplies, gestures, closed>>

\* after `await fetch(uploadUrl, ...)`: resolved, the interval is cleared and
\* progress 50 sent; rejected, control is in the outer catch
UploadFetchDone(O) ==
  \E o \in O :
    /\ uploadPc = "fetch"
    /\ IF o = "ok"
       THEN /\ progressInterval' = FALSE
            /\ widgetUpdates' = sendProgress(widgetUpdates, uploadWidget, 50)
            /\ uploadPc' = "text"
       ELSE /\ widgetUpdates' = sendUploadWidgetUpdate(widgetUpdates, uploadWidget, Update("error", 0))
            /\ uploadPc' = "done"
            /\ UNCHANGED progressInterval
    /\ UploadUnchanged

\* after `await response.text()`: the reply reports success (the share page is
\* fetched next) or not, or the read was rejected
UploadTextDone(O) ==
  \E o \in O :
    /\ uploadPc = "text"
    /\ widgetUpdates' =
         CASE o = "success" -> sendProgress(sendProgress(widgetUpdates, uploadWidget, 60), uploadWidget, 70)
           [] o = "error" -> sendUploadWidgetUpdate(sendProgress(widgetUpdates, uploadWidget, 60), uploadWidget,
                                                    Update("error", 0))
           [] OTHER -> sendUploadWidgetUpdate(widgetUpdates, uploadWidget, Update("error", 0))
    /\ uploadPc' = IF o = "success" THEN "page" ELSE "done"
    /\ UNCHANGED progressInterval
    /\ UploadUnchanged

\* after `await fetch(shareUrl, ...)`: rejected, the inner catch reports
\* success with the share URL
UploadPageDone(O) ==
  \E o \in O :
    /\ uploadPc = "page"
    /\ widgetUpdates' =
         IF o = "ok" THEN sendProgress(widgetUpdates, uploadWidget, 80)
         ELSE sendUploadWidgetUpdate(sendProgress(widgetUpdates, uploadWidget, 100), uploadWidget,
                                     Update("success", 100))
    /\ uploadPc' = IF o = "ok" THEN "html" ELSE "done"
    /\ UNCHANGED progressInterval
    /\ UploadUnchanged

\* after `await pageResponse.text()`
UploadHtmlDone(O) ==
  \E o \in O :
    /\ uploadPc = "html"
    /\ widgetUpdates' =
         LET sent == IF o = "ok" THEN sendProgress(widgetUpdates, uploadWidget, 90) ELSE widgetUpdates
         IN sendUploadWidgetUpdate(sendProgress(sent, uploadWidget, 100), uploadWidget, Update("success", 100))
    /\ uploadPc' = "done"
    /\ UNCHANGED progressInterval
    /\ UploadUnchanged

\* the user closes the widget: its 'closed' handler drops the reference
CloseUploadWidget ==
  /\ uploadWidget
  /\ uploadWidget' = FALSE
  /\ UNCHANGED <<storeVars, storageVars, isFreshStart, ipcPending, windowVars, uploadPc, currentProgress,
                 progressInterval, widgetUpdates, canvasVars, log, freshReplies, gestures, closed>>

AwaitOutcomes == {"ok", "reject"}

\* one upload from the open overlay
NextUpload ==
  \/ UploadImage
  \/ ProgressTick
  \/ UploadFetchDone(AwaitOutcomes)
  \/ UploadTextDone({"success", "error", "reject"})
  \/ UploadPageDone(AwaitOutcomes)
  \/ UploadHtmlDone(AwaitOutcomes)
  \/ CloseUploadWidget

SpecUpload == InitReady /\ [][NextUpload]_vars

----------------------------------------------------------------------------
(* OverlayView.handleSaveWithOptions, normal mode *)

\* "Hide crop overlay visual": obj.visible = false for every crop-overlay
HideCropOverlays(objs) ==
  [k \in 1..Len(objs) |-> IF objs[k].kind = "crop-overlay" THEN [objs[k] EXCEPT !.visible = FALSE] ELSE objs[k]]

\* objectsToRestore: the visibility each object had (used for the crop overlays)
VisibilityOf(objs) == [k \in 1..Len(objs) |-> objs[k].visible]

\* objectsToRestore.forEach(({obj, visible}) => obj.visible = visible)
RestoreVisibility(objs, prior) ==
  [k \in 1..Len(objs) |-> IF objs[k].kind = "crop-overlay" /\ k <= Len(prior)
                          THEN [objs[k] EXCEPT !.visible = prior[k]] ELSE objs[k]]

\* `overlayStateData.cropBounds || (canvas as any).cropBounds`
SaveBounds == IF cropBounds # None THEN cropBounds ELSE canvasCropBounds

\* the region of canvas.toDataURL(exportOptions): None is the full canvas
ExportRegion(bounds) ==
  IF bounds # None /\ bounds[1].width > 0 /\ bounds[1].height > 0 THEN bounds ELSE None

\* the temporary background image of the export
BackgroundImage == Obj("image", "background-image", NoGeom, <<>>, <<>>, "none")

\* a rasterisation of the scene objs on record: the region exported and the
\* crop masks of the scene, with the visibility they are drawn with
ExportLogOf(region, objs) ==
  LogRec("export", [region |-> region, masks |-> SelectSeq(toJSON(objs), LAMBDA o : o.kind = "crop-overlay")],
         "ok", history, historyIndex, None, TRUE, <<"none", FALSE>>)
ExportLog(region) == ExportLogOf(region, objects)

SaveOutcomes == {"ok", "throw"}

\* handleSaveWithOptions up to its first await: with a pre-captured background
\* (bg) it waits for the background image; without, it rasterises at once (r)
\* and waits for the file to be written.  The save button is a click.
HandleSaveWithOptions(B, R, cap) ==
  \E bg \in B, r \in R :
    /\ CanvasExists
    /\ savePc = "idle"
    /\ ~pointerDown
    /\ gestures < cap
    /\ gestures' = gestures + 1
    /\ IF bg
       THEN /\ objects' = HideCropOverlays(objects)
            /\ savePc' = "bg"
            /\ saveCtx' = Some([bounds |-> SaveBounds, restore |-> VisibilityOf(objects)])
            /\ log' = AppLog("saveStarted", None, None, TRUE)
       ELSE IF r = "throw"
       THEN /\ objects' = HideCropOverlays(objects)
            /\ log' = AppLog("saveFailed", None, None, FALSE)
            /\ UNCHANGED <<savePc, saveCtx>>
       ELSE /\ objects' = RestoreVisibility(HideCropOverlays(objects), VisibilityOf(objects))
            /\ savePc' = "write"
            /\ log' = ExportLogOf(ExportRegion(SaveBounds), HideCropOverlays(objects))
            /\ UNCHANGED saveCtx
    /\ UNCHANGED <<storeVars, storageVars, mainVars, pc, canvasCropBounds, overlayVars, gestureVars, activeTool,
                   configVars, numberingCounter, clipboard, editVars, freshReplies, closed>>

\* handleSaveWithOptions after `await new Promise<fabric.Image>(...)`: the
\* image could not be created (o), or it is added at the back, the canvas
\* rasterised (r), the image removed and the visibility restored
SaveBackgroundDone(O, R) ==
  \E o \in O, r \in R :
    /\ savePc = "bg"
    /\ saveCtx' = None
    /\ IF o = "throw"
       THEN /\ savePc' = "idle"
            /\ log' = AppLog("saveFailed", None, None, FALSE)
            /\ UNCHANGED objects
       ELSE IF r = "throw"
       THEN /\ savePc' = "idle"
            /\ objects' = AddAtBack(objects, BackgroundImage)
            /\ log' = AppLog("saveFailed", None, None, FALSE)
       ELSE /\ savePc' = "write"
            /\ objects' = RestoreVisibility(objects, saveCtx[1].restore)
            /\ log' = ExportLog(ExportRegion(saveCtx[1].bounds))
    /\ UNCHANGED <<storeVars, storageVars, mainVars, pc, canvasCropBounds, overlayVars, gestureVars, activeTool,
                   configVars, numberingCounter, clipboard, editVars, freshReplies, gestures, closed>>

WriteResults == {"path", "none", "throw"}

\* handleSaveWithOptions after `await window.electronAPI.saveAnnotation(dataUrl)`:
\* with a file path the reset is scheduled (setTimeout, 500 ms)
SaveAnnotationDone(F) ==
  \E f \in F :
    /\ savePc = "write"
    /\ savePc' = IF f = "path" THEN "timer" ELSE "idle"
    /\ log' = LogRec(IF f = "path" THEN "saved" ELSE "saveFailed",
                     [scene |-> toJSON(objects), os |-> CurOS, ccb |-> canvasCropBounds, ls |-> LS, n |-> numberingCounter],
                     "ok", history, historyIndex, None, f = "path", <<"none", FALSE>>)
    /\ UNCHANGED <<storeVars, storageVars, mainVars, pc, objects, canvasCropBounds, overlayVars, gestureVars,
                   activeTool, configVars, numberingCounter, clipboard, saveCtx, editVars, freshReplies, gestures, closed>>

\* the timeout callback: canvas.clear(), clearHistory(), resetNumbering(),
\* resetOverlayState(), closeOverlay() (the main process closes the window)
SaveReset ==
  /\ savePc = "timer" \/ (secondSave # None /\ secondSave[1].pc = "timer")
  /\ lsState' = clearHistory(history, historyIndex, LS).ls.state
  /\ lsHistory' = clearHistory(history, historyIndex, LS).ls.hist
  /\ HideOverlay
  /\ log' = AppLog("saveReset", None, None, TRUE)
  /\ UNCHANGED <<isFreshStart, uploadVars, ipcPending, settingsWindow, capturing, freshReplies, gestures, closed>>

\* a call of handleSaveWithOptions made while an earlier call awaits the
\* background image or the file write, up to its own first await
HandleSaveSecond(B, cap) ==
  \E bg \in B :
    /\ CanvasExists
    /\ savePc \in {"bg", "write"}
    /\ secondSave = None
    /\ ~pointerDown
    /\ gestures < cap
    /\ gestures' = gestures + 1
    /\ IF bg
       THEN /\ objects' = HideCropOverlays(objects)
            /\ secondSave' = Some([pc |-> "bg", bounds |-> SaveBounds, restore |-> VisibilityOf(objects)])
            /\ log' = AppLog("saveStarted", None, None, TRUE)
       ELSE /\ objects' = RestoreVisibility(HideCropOverlays(objects), VisibilityOf(objects))
            /\ secondSave' = Some([pc |-> "write", bounds |-> SaveBounds, restore |-> VisibilityOf(objects)])
            /\ log' = ExportLogOf(ExportRegion(SaveBounds), HideCropOverlays(objects))
    /\ UNCHANGED <<storeVars, storageVars, mainVars, pc, canvasCropBounds, overlayVars, gestureVars, activeTool,
                   configVars, viewVars, blurPending, textToolState, freshReplies, closed>>

\* the later call after its background image is created: the image is added
\* at the back, the canvas rasterised, the image removed and the visibility
\* this call recorded restored
SecondBackgroundDone ==
  /\ secondSave # None
  /\ secondSave[1].pc = "bg"
  /\ objects' = RestoreVisibility(objects, secondSave[1].restore)
  /\ secondSave' = Some([secondSave[1] EXCEPT !.pc = "write"])
  /\ log' = ExportLog(ExportRegion(secondSave[1].bounds))
  /\ UNCHANGED <<storeVars, storageVars, mainVars, pc, canvasCropBounds, overlayVars, gestureVars, activeTool,
                 configVars, viewVars, blurPending, textToolState, freshReplies, gestures, closed>>

\* the later call after its file write: with a file path its reset is scheduled
SecondAnnotationDone(F) ==
  \E f \in F :
    /\ secondSave # None
    /\ secondSave[1].pc = "write"
    /\ secondSave' = IF f = "path" THEN Some([secondSave[1] EXCEPT !.pc = "timer"]) ELSE None
    /\ log' = AppLog(IF f = "path" THEN "saved" ELSE "saveFailed", None, None, f = "path")
    /\ UNCHANGED <<storeVars, storageVars, mainVars, pc, objects, canvasCropBounds, overlayVars, gestureVars,
                   activeTool, configVars, viewVars, blurPending, textToolState, freshReplies, gestures, closed>>

\* the tray menu, the hotkey and image mode open the overlay, the tray menu
\* and the overlay's button open the settings
NextWindows ==
  \/ ShowOverlay
  \/ ShowOverlayResume
  \/ ShowOverlayWithImage
  \/ OverlayReadyToShow
  \/ ToggleOverlay
  \/ OpenSettings
  \/ CloseSettings
  \/ CheckFreshStart
  \/ InitCanvasResume({"ok"})
  \/ HandleClose

SpecWindows == Init /\ [][NextWindows]_vars

\* one initialised session adding spotlight holes of either shape and style,
\* with drags below and above the size threshold, and undo / redo
NextAdd ==
  \/ SetActiveTool({"select", "spotlight"})
  \/ SetSpotlightShape(Shapes)
  \/ SetSpotlightStyle(SpotlightStyles)
  \/ HandleMouseDown({StartPoint}, AddGestures)
  \/ HandleMouseMove(DragPoints, NoModifiers)
  \/ HandleMouseUp({"ok"})
  \/ KeyUndoRedo({"ok"})
  \/ ButtonUndoRedo({"ok"})

SpecAdd == InitReady /\ [][NextAdd]_vars

\* one initialised session drawing rectangles and spotlight holes, changing
\* the darkness / colour, with undo / redo by key and by button
NextBack ==
  \/ SetActiveTool({"select", "spotlight", "rectangle"})
  \/ SetSpotlightStyle(SpotlightStyles)
  \/ HandleMouseDown({StartPoint}, BackGestures)
  \/ HandleMouseMove(BigDrags, NoModifiers)
  \/ HandleMouseUp({"ok"})
  \/ KeyUndoRedo({"ok"})
  \/ ButtonUndoRedo({"ok"})

\* the same session after one rectangle was drawn from (20,20) to (60,40)
DrawnState ==
  /\ history = <<EmptyScene, RectScene>>
  /\ historyIndex = 1
  /\ lsState = Some(RectScene)
  /\ lsHistory = Some([history |-> <<EmptyScene, RectScene>>, historyIndex |-> 1])
  /\ pc = "ready"
  /\ objects = <<[SampleRect EXCEPT !.ref = "active"]>>
  /\ canvasCropBounds = None
  /\ spotlightHoles = <<>>
  /\ spotlightOverlay = FALSE
  /\ cropOverlay = FALSE
  /\ hasCrop = FALSE
  /\ cropBounds = None
  /\ isDrawing = FALSE
  /\ startPoint = None
  /\ currentObject = None
  /\ endPoint = None
  /\ pointerDown = FALSE
  /\ activeTool = "select"
  /\ spotlightShape = "circle"
  /\ spotlightColor = DEFAULT_COLOR
  /\ spotlightDarkness = DEFAULT_DARKNESS
  /\ numberingCounter = 1
  /\ clipboard = None
  /\ savePc = "idle"
  /\ saveCtx = None
  /\ secondSave = None
  /\ blurPending = <<>>
  /\ textToolState = "idle"
  /\ isFreshStart = FALSE
  /\ ipcPending = 0
  /\ settingsWindow = FALSE
  /\ overlayWindow = TRUE
  /\ overlayShown = TRUE
  /\ capturing = 0
  /\ uploadPc = "idle"
  /\ currentProgress = 0
  /\ progressInterval = FALSE
  /\ uploadWidget = FALSE
  /\ widgetUpdates = <<>>
  /\ freshReplies = <<TRUE>>
  /\ closed = None

InitDrawn == DrawnState /\ gestures = 0 /\ log = NoLog

SpecBack == InitDrawn /\ [][NextBack]_vars

\* one initialised session drawing rectangles with and without Shift and Alt
NextShift ==
  \/ SetActiveTool({"select", "rectangle"})
  \/ HandleMouseDown({StartPoint}, ShiftGestures)
  \/ HandleMouseMove(ShiftDrags, Modifiers)
  \/ HandleMouseUp({"ok"})

SpecShift == InitReady /\ [][NextShift]_vars

\* the session after that rectangle, drawing rectangles, ellipses and arrows
\* with drags below and above the size threshold, and keyboard undo / redo
NextShapes ==
  \/ SetActiveTool({"select", "rectangle", "ellipse", "arrow"})
  \/ HandleMouseDown({StartPoint}, ShapeGestures)
  \/ HandleMouseMove(DragPoints, NoModifiers)
  \/ HandleMouseUp({"ok"})
  \/ KeyUndoRedo({"ok"})

SpecShapes == InitDrawn /\ [][NextShapes]_vars

\* the session after that rectangle, drawing ellipses, selecting and deleting
\* objects, and keyboard undo / redo
NextDelete ==
  \/ SetActiveTool({"select", "ellipse"})
  \/ HandleMouseDown({StartPoint}, DelGestures)
  \/ HandleMouseMove(BigDrags, NoModifiers)
  \/ HandleMouseUp({"ok"})
  \/ SelectObject
  \/ HandleDelete({"ok"})
  \/ KeyUndoRedo({"ok"})

SpecDelete == InitDrawn /\ [][NextDelete]_vars

\* one session with a rectangle, a spotlight and a crop region, Delete and
\* Ctrl+X pressed with any object of the scene as the active object
NextGuard ==
  \/ SetActiveTool({"select", "spotlight", "crop"})
  \/ HandleMouseDown({StartPoint}, GuardGestures)
  \/ HandleMouseMove(BigDrags, NoModifiers)
  \/ HandleMouseUp({"ok"})
  \/ HandleDelete({"ok"})
  \/ HandleCut({"ok"})
  \/ HandleDeleteOverlay({"ok"})
  \/ HandleCutOverlay({"ok"})

SpecGuard == InitDrawn /\ [][NextGuard]_vars

\* one initialised session with the crop and the numbering tool, clear-all,
\* undo / redo, saves with and without the captured background, close and
\* reopen.  While a save waits for its background image nothing else is offered.
NextSave ==
  \/ /\ savePc # "bg"
     /\ \/ SetActiveTool({"crop", "numbering"})
        \/ HandleMouseDown({StartPoint}, SaveGestures)
        \/ HandleMouseDownNumbering({StartPoint}, {"ok"}, SaveGestures)
        \/ HandleMouseMove(BigDrags, NoModifiers)
        \/ HandleMouseUp({"ok"})
        \/ HandleMouseUpIdle
        \/ HandleClear
        \/ KeyUndoRedo({"ok"})
        \/ HandleClose
        \/ OpenOverlay
        \/ CheckFreshStart
        \/ InitCanvasResume({"ok"})
  \/ HandleSaveWithOptions(BOOLEAN, SaveOutcomes, SaveGestures)
  \/ SaveBackgroundDone(SaveOutcomes, SaveOutcomes)
  \/ SaveAnnotationDone(WriteResults)
  \/ SaveReset

SpecSave == InitReady /\ [][NextSave]_vars

\* a crop is drawn, then save requests overlap; every image creation and
\* rasterisation succeeds
NextTwoSaves ==
  \/ /\ savePc = "idle"
     /\ secondSave = None
     /\ \/ SetActiveTool({"crop"})
        \/ HandleMouseDown({StartPoint}, TwoSaveGestures)
        \/ HandleMouseMove(DragPoints, NoModifiers)
        \/ HandleMouseUp({"ok"})
  \/ HandleSaveWithOptions(BOOLEAN, {"ok"}, TwoSaveGestures)
  \/ SaveBackgroundDone({"ok"}, {"ok"})
  \/ SaveAnnotationDone({"path", "none"})
  \/ HandleSaveSecond(BOOLEAN, TwoSaveGestures)
  \/ SecondBackgroundDone
  \/ SecondAnnotationDone({"path", "none"})
  \/ SaveReset

SpecTwoSaves == InitReady /\ [][NextTwoSaves]_vars

\* the timeout callback runs once it is scheduled, unless the renderer is gone
SpecSaveFair == SpecSave /\ WF_vars(SaveReset)

\* the application started over a damaged localStorage: the overlay opened,
\* closed by Escape or by opening the settings, opened again, rectangles drawn
NextLoad ==
  \/ OpenOverlay
  \/ CheckFreshStart
  \/ InitCanvasResume(WriteOutcomes)
  \/ HandleClose
  \/ OpenSettings
  \/ CloseSettings
  \/ SetActiveTool({"rectangle"})
  \/ HandleMouseDown({StartPoint}, LoadGestures)
  \/ HandleMouseMove(BigDrags, NoModifiers)
  \/ HandleMouseUp(WriteOutcomes)
  \/ KeyUndoRedo(WriteOutcomes)

SpecLoad == Started(DamagedStorage) /\ [][NextLoad]_vars

\* spotlights and rectangles drawn while the spotlight colour and darkness
\* are changed, with undo / redo by key
NextTint ==
  \/ SetActiveTool({"spotlight", "rectangle"})
  \/ SetSpotlightStyle(SpotlightStyles)
  \/ HandleMouseDown({StartPoint}, TintGestures)
  \/ HandleMouseMove(BigDrags, NoModifiers)
  \/ HandleMouseUp({"ok"})
  \/ KeyUndoRedo({"ok"})

SpecTint == InitReady /\ [][NextTint]_vars

AllTools == {"select", "rectangle", "ellipse", "line", "arrow", "freehand", "marker", "spotlight", "blur", "crop"}

\* every drawing tool in turn
NextTools ==
  \/ SetActiveTool(AllTools)
  \/ HandleMouseDown({StartPoint}, ToolGestures)
  \/ HandleMouseDownFreehand(ToolGestures)
  \/ HandleMouseMove(DragPoints, NoModifiers)
  \/ HandleMouseUp({"ok"})
  \/ HandleMouseUpIdle
  \/ HandleMouseUpBlur
  \/ CreateBlurRectDone({"ok"})
  \/ HandlePathCreated({"ok"})
  \/ KeyUndoRedo({"ok"})

SpecTools == InitReady /\ [][NextTools]_vars

\* blur gestures and what the user does while createBlurRect is awaited
NextBlur ==
  \/ SetActiveTool({"blur", "rectangle", "arrow"})
  \/ HandleMouseDown({StartPoint}, BlurGestures)
  \/ HandleMouseMove(BigDrags, NoModifiers)
  \/ HandleMouseUp({"ok"})
  \/ HandleMouseUpIdle
  \/ HandleMouseUpBlur
  \/ CreateBlurRectDone({"ok"})

SpecBlur == InitReady /\ [][NextBlur]_vars

\* the text tool: toolbar clicks, presses on the canvas, Escape in the editor
NextText ==
  \/ SetActiveTool({"text", "select"})
  \/ HandleMouseDownText({StartPoint, BigDrag}, TextGestures)
  \/ HandleMouseDownEditing({StartPoint, BigDrag}, {"ok"}, TextGestures)
  \/ HandleTextEditingExited({"ok"})
  \/ HandleMouseUpIdle

SpecText == InitReady /\ [][NextText]_vars

----------------------------------------------------------------------------
(* Properties of the history engine *)

\* C1: when undo() succeeds, a redo() called right after it returns the snapshot
\* that was at history[historyIndex] before the undo, puts historyIndex back to
\* its value before the undo and leaves the history list as it was.
C1_UndoRedoRoundTrip ==
  [][(log.op = "undo" /\ log.eff /\ log'.op = "redo")
       => /\ log'.ret = At(log.h, log.i)
          /\ log'.ret # None
          /\ historyIndex' = log.i
          /\ history' = log.h]_vars

C1_Witness ==
  /\ log.op = "redo" /\ log.eff
  /\ log.prev = <<"undo", TRUE>>
  /\ Len(history) >= 3
  /\ historyIndex < Len(history) - 1

\* the list that a push of s at index i leaves: entries 0..i, then s, cut to the newest MAX_HISTORY
PushedList(h, i, s) ==
  LET nh == Append(SubSeq(h, 1, i + 1), s)
  IN IF Len(nh) > MAX_HISTORY THEN SubSeq(nh, Len(nh) - MAX_HISTORY + 1, Len(nh)) ELSE nh

PushTookEffect == log.op = "pushHistory" /\ log.arg # At(log.h, log.i)

\* C2 as stated: a push of s that differs from history[historyIndex], at index i,
\* leaves exactly the old entries 0..i followed by s, with historyIndex at s, and
\* a redo() called right after it fails.
C2_PushDropsRedoTail_AsStated ==
  /\ PushTookEffect
       => /\ history = Append(SubSeq(log.h, 1, log.i + 1), log.arg[1])
          /\ historyIndex = Len(history) - 1
          /\ At(history, historyIndex) = log.arg
  /\ (log.op = "redo" /\ log.prev = <<"pushHistory", TRUE>>)
       => log.ret = None /\ history = log.h /\ historyIndex = log.i

\* C2 (amended): a push of s that differs from history[historyIndex], at index i,
\* leaves the old entries 0..i followed by s, less the oldest entry when that
\* list would hold more than 50 entries; historyIndex is at s, the last entry,
\* and a redo() called right after it fails and changes nothing.
C2_PushDropsRedoTail ==
  /\ PushTookEffect
       => /\ history = PushedList(log.h, log.i, log.arg[1])
          /\ (log.i + 1 < MAX_HISTORY => history = Append(SubSeq(log.h, 1, log.i + 1), log.arg[1]))
          /\ historyIndex = Len(history) - 1
          /\ At(history, historyIndex) = log.arg
  /\ (log.op = "redo" /\ log.prev = <<"pushHistory", TRUE>>)
       => log.ret = None /\ history = log.h /\ historyIndex = log.i

\* a push after two undos: two redo entries were dropped
C2_Witness ==
  /\ PushTookEffect
  /\ log.i + 2 < Len(log.h)
  /\ log.i >= 1
  /\ Len(history) = log.i + 2

\* C3: a push of the snapshot that is at the current index changes nothing:
\* the history list and historyIndex stay as they were, also when the current
\* index is not the last entry (the redo tail is kept).
C3_Coalescing ==
  (log.op = "pushHistory" /\ log.arg = At(log.h, log.i))
    => /\ history = log.h
       /\ historyIndex = log.i
       /\ ~log.eff

C3_Witness ==
  /\ log.op = "pushHistory" /\ log.arg = At(log.h, log.i)
  /\ log.i < Len(log.h) - 1
  /\ log.i >= 1
  /\ log.h[Len(log.h)] # log.arg[1]

\* C4: the history never holds more than 50 entries; a push of a distinct
\* snapshot onto 50 entries with index 49 drops exactly the oldest entry, keeps
\* the other 49 in order, appends the new snapshot last and leaves historyIndex = 49.
C4_Bounded ==
  /\ Len(history) <= MAX_HISTORY
  /\ (PushTookEffect /\ Len(log.h) = MAX_HISTORY /\ log.i = MAX_HISTORY - 1)
       => /\ history = Append(Tail(log.h), log.arg[1])
          /\ Len(history) = MAX_HISTORY
          /\ historyIndex = MAX_HISTORY - 1

C4_Witness ==
  /\ PushTookEffect
  /\ Len(log.h) = MAX_HISTORY
  /\ log.i = MAX_HISTORY - 1

\* C5: undo() with historyIndex <= 0 and redo() with historyIndex >= length - 1
\* return null and change neither history nor historyIndex; otherwise each call
\* moves historyIndex by exactly one and returns the snapshot at the new index.
C5_UndoRedoEnds ==
  /\ (log.op = "undo" /\ log.i <= 0)
       => log.ret = None /\ history = log.h /\ historyIndex = log.i
  /\ (log.op = "undo" /\ log.i > 0)
       => log.ret = Some(log.h[log.i]) /\ history = log.h /\ historyIndex = log.i - 1
  /\ (log.op = "redo" /\ log.i >= Len(log.h) - 1)
       => log.ret = None /\ history = log.h /\ historyIndex = log.i
  /\ (log.op = "redo" /\ log.i < Len(log.h) - 1)
       => log.ret = Some(log.h[log.i + 2]) /\ history = log.h /\ historyIndex = log.i + 1

\* an undo refused at index 0 of a non-empty history, after a successful undo
C5_Witness ==
  /\ log.op = "undo" /\ log.i = 0 /\ Len(log.h) >= 2
  /\ log.prev = <<"undo", TRUE>>

\* C6: after a push that changed the history, and after a successful undo or
\* redo, whose storage writes succeeded, the persisted history record equals
\* the in-memory {history, historyIndex} and the persisted scene snapshot
\* equals history[historyIndex].
C6_PersistenceFollows ==
  (log.op \in {"pushHistory", "undo", "redo"} /\ log.eff /\ log.w = "ok")
    => /\ lsHistory = Some([history |-> history, historyIndex |-> historyIndex])
       /\ lsState = At(history, historyIndex)
       /\ lsState # None

\* a successful, persisted undo right after a push
C6_Witness ==
  /\ log.op = "undo" /\ log.eff /\ log.w = "ok"
  /\ log.prev = <<"pushHistory", TRUE>>
  /\ lsHistory = Some([history |-> history, historyIndex |-> historyIndex])
  /\ Len(history) >= 2


----------------------------------------------------------------------------
(* Properties of the overlay life cycle *)

\* what initCanvas found when it resumed: the reply, the storage, the canvas
InitDone == log.op = "initCanvas"
InitFresh == log.arg[1]
InitStorage == log.arg[2]
InitObjects == log.arg[3]

\* the scene without the derived spotlight overlay
UserObjects(objs) == SelectSeq(toJSON(objs), LAMBDA o : o.kind # "spotlight-overlay")

\* the overlay that was closed had finished initCanvas, and nothing touched the
\* storage, the new canvas or the new store between the close and the restore
ReopenedUntouched ==
  /\ closed # None
  /\ closed[1].ready
  /\ InitStorage.state = Some(PlainSnapshot(closed[1].scene))
  /\ InitObjects = <<>>
  /\ log.h = <<>>

\* C7 as stated: within one run (not the fresh start), after the overlay is
\* closed and reopened, the restored scene, the spotlight hole list and
\* history / historyIndex equal their values at the moment of closing.
C7_ReopenRestores ==
  (InitDone /\ ~InitFresh /\ ReopenedUntouched)
    => /\ toJSON(objects) = closed[1].scene
       /\ spotlightHoles = closed[1].holes
       /\ history = closed[1].history
       /\ historyIndex = closed[1].historyIndex

\* C8: the first check-fresh-start request is answered true and every later one
\* false; a canvas that reads true clears the persisted scene and history and
\* does not restore them (its canvas is left as it is and the only entry added
\* is the snapshot of that canvas); a canvas that reads false restores the
\* persisted scene, and the persisted history when there is one, and leaves
\* the storage as it found it.
C8_FreshStartOnce ==
  /\ \A k \in 1..Len(freshReplies) : freshReplies[k] = (k = 1)
  /\ (InitDone /\ InitFresh)
       => /\ objects = InitObjects
          /\ history = PushedList(log.h, log.i, PlainSnapshot(InitObjects))
          /\ historyIndex = Len(history) - 1
          /\ lsState \in {None, Some(PlainSnapshot(InitObjects))}
          /\ lsHistory \in {None, Some([history |-> history, historyIndex |-> historyIndex])}
  /\ (InitDone /\ ~InitFresh /\ InitStorage.state # None)
       => /\ UserObjects(objects) = UserObjects(InitStorage.state[1].objects)
          /\ InitStorage.hist # None
               => /\ history = InitStorage.hist[1].history
                  /\ historyIndex = InitStorage.hist[1].historyIndex
          /\ lsState = InitStorage.state
          /\ lsHistory = InitStorage.hist

\* the second overlay of the run reads false and restores a scene with a user
\* object and a history of several entries
C8_Witness ==
  /\ InitDone /\ ~InitFresh
  /\ freshReplies = <<TRUE, FALSE>>
  /\ InitStorage.state # None
  /\ InitObjects = <<>>
  /\ UserObjects(objects) # <<>>
  /\ Len(history) >= 2

\* C9 as stated: a canvas created without a restorable persisted state has its
\* history initialised with exactly one entry, the empty-scene snapshot, at
\* historyIndex = 0; a canvas that restores from persisted state pushes no
\* initial snapshot.
C9_InitialSnapshot ==
  /\ (InitDone /\ (InitFresh \/ InitStorage.state = None))
       => history = <<EmptyScene>> /\ historyIndex = 0
  /\ (InitDone /\ ~InitFresh /\ InitStorage.state # None)
       => /\ InitStorage.hist # None => history = InitStorage.hist[1].history
          /\ InitStorage.hist = None => history = log.h

----------------------------------------------------------------------------
(* Properties of undo / redo on the canvas *)

RestoreDone == log.op \in {"keyUndo", "keyRedo", "buttonUndo", "buttonRedo"} /\ log.eff

SpotlightOverlays(objs) == SelectSeq(objs, LAMBDA o : o.kind = "spotlight-overlay")

\* the spotlight state is the one derived from the snapshot snap
SpotlightDerivedFrom(snap) ==
  /\ MapSeq(HoleData, spotlightHoles) = ParsedHolesData(snap)
  /\ IF ParsedHolesData(snap) = <<>>
     THEN SpotlightOverlays(objects) = <<>> /\ ~spotlightOverlay
     ELSE /\ spotlightOverlay
          /\ SpotlightOverlays(objects) = <<objects[1]>>
          /\ objects[1].ref = "spot"
          /\ objects[1].clip = spotlightHoles
          /\ objects[1].style = <<ParsedColor(snap), ParsedDarkness(snap)>>

\* C10 as stated: after every successful undo or redo, by Ctrl+Z / Ctrl+Shift+Z
\* or by the toolbar buttons, the hole list equals the hole geometry stored in
\* the restored snapshot and the overlay is the one built from that list with
\* the snapshot's colour and darkness.
C10_RestoreResyncsSpotlight ==
  RestoreDone => SpotlightDerivedFrom(log.ret[1])

----------------------------------------------------------------------------
(* Properties of the crop region *)

CropMasks(objs) == SelectSeq(toJSON(objs), LAMBDA o : o.kind = "crop-overlay")

\* hasCrop and the crop rectangle agree with the crop mask of the scene
CropSideChannelMatches ==
  LET masks == CropMasks(objects)
  IN /\ hasCrop = (masks # <<>>)
     /\ masks # <<>> => cropBounds = Some(masks[1].geom)
     /\ masks = <<>> => cropBounds = None

\* C11 as stated: after a history restore (undo or redo by key or button, or
\* the load of the persisted state on reopen) hasCrop is true exactly when the
\* restored scene holds a crop mask, and the crop rectangle equals that mask's
\* rectangle (absent when there is no mask).
C11_CropFollowsRestore ==
  (RestoreDone \/ (InitDone /\ ~InitFresh /\ InitStorage.state # None))
    => CropSideChannelMatches

CropCommitted == log.op = "mouseUp" /\ log.arg.tool = "crop" /\ log.eff

\* C15 as stated: the scene never holds more than one crop mask, and a crop
\* committed while one exists leaves exactly one, the new one.
C15_SingleCrop ==
  /\ Len(CropMasks(objects)) <= 1
  /\ CropCommitted
       => CropMasks(objects) = toJSON(<<createCropOverlay(Geom(log.arg.obj.geom.left, log.arg.obj.geom.top,
                                                              log.arg.obj.geom.width, log.arg.obj.geom.height, 0))>>)

\* the state a crop-tool press found while a crop existed is still the state
SameAsAtPress(press, h, i) ==
  /\ toJSON(objects) = toJSON(press.os.objects)
  /\ spotlightHoles = press.os.holes
  /\ hasCrop = press.os.hasCrop
  /\ cropBounds = press.os.cropBounds
  /\ canvasCropBounds = press.ccb
  /\ history = h
  /\ historyIndex = i

\* C16 as stated: while a crop exists, a press, move and release with the crop
\* tool adds no preview and leaves the scene, the crop rectangle, the overlay
\* state and the history as they were before the press.
C16_CropGestureIgnored ==
  /\ log.op = "pressIgnored" => SameAsAtPress(log.arg, log.h, log.i)
  /\ (log.op = "mouseUp" /\ log.arg.tool = "crop" /\ log.arg.press # None)
       => SameAsAtPress(log.arg.press[1], log.h, log.i)

----------------------------------------------------------------------------
(* Properties of the spotlight overlay *)

\* C12 as stated: in every reachable state (spotlight drags, darkness / colour
\* changes, undo / redo by key or button, restores, clear-all) the scene holds
\* at most one object tagged spotlight-overlay.
C12_SpotlightSingleton == Len(SpotlightOverlays(objects)) <= 1

\* C13: every spotlight overlay of the scene lies behind every other object;
\* with a single overlay, that overlay is the bottom-most object.
C13_OverlayAtBack ==
  \A j \in 1..Len(objects), k \in 1..Len(objects) :
    (j < k /\ objects[k].kind = "spotlight-overlay") => objects[j].kind = "spotlight-overlay"

\* a spotlight drag was just committed under a scene that already held a rectangle
C13_Witness ==
  /\ log.op = "mouseUp" /\ log.arg.tool = "spotlight" /\ log.eff
  /\ \E k \in 1..Len(log.arg.os.objects) : log.arg.os.objects[k].kind = "rectangle"
  /\ Len(objects) >= 2
  /\ objects[1].kind = "spotlight-overlay"
  /\ objects[2].kind = "rectangle"

\* the last call was a release of a spotlight drag above the size threshold
SpotlightCommitted ==
  /\ log.op = "mouseUp"
  /\ log.arg.tool = "spotlight"
  /\ HoleFromPreview(log.arg.obj, log.arg.shape) # None

\* C14: a committed spotlight drag above the size threshold appends exactly one
\* hole at the end of the hole list and leaves the earlier holes as they were,
\* the overlay is the one built from the whole list, and exactly one snapshot
\* is pushed, which carries the geometry of every hole.
C14_SpotlightAdditive ==
  SpotlightCommitted =>
    /\ spotlightHoles = Append(log.arg.os.holes, HoleFromPreview(log.arg.obj, log.arg.shape)[1])
    /\ spotlightOverlay
    /\ objects[1] = SpotlightRect(spotlightHoles, spotlightColor, spotlightDarkness)
    /\ history = Append(Slice0(log.h, log.i + 1),
                        HistorySnapshot(objects, spotlightHoles, spotlightColor, spotlightDarkness))
    /\ historyIndex = log.i + 1
    /\ ParsedHolesData(history[Len(history)]) = MapSeq(HoleData, spotlightHoles)
    /\ ParsedHoleCount(history[Len(history)]) = Len(spotlightHoles)

\* a hole was appended to a list that held a hole of the other shape
C14_Witness ==
  /\ SpotlightCommitted
  /\ Len(spotlightHoles) >= 2
  /\ spotlightHoles[1].type # spotlightHoles[Len(spotlightHoles)].type

\* C17 as stated: an undo directly after a change of the spotlight darkness /
\* colour made while holes exist brings back the overlay as it was before the
\* change: the same holes at the darkness in effect before the change.
C17_DarknessChangeUndoable ==
  (log.op = "keyUndo" /\ log.prev = <<"style", TRUE>> /\ log.arg.before # None
     /\ SpotlightOverlays(log.arg.before[1]) # <<>>)
    => /\ SpotlightOverlays(toJSON(objects)) = SpotlightOverlays(log.arg.before[1])
       /\ spotlightHoles = SpotlightOverlays(log.arg.before[1])[1].clip

----------------------------------------------------------------------------
(* Properties of object creation and deletion *)

CreatingTools == ShapeTools \cup {"arrow"}

\* the last call was a release that created an object, reached by an undo, the
\* redo directly after it, and then nothing but the choice of a tool and the
\* drag; no drag was in progress at the undo and the redo
CreatedAfterUndoRedo ==
  /\ log.op = "mouseUp"
  /\ log.eff
  /\ log.arg.tool \in CreatingTools
  /\ log.arg.carried # None

\* C18: an undo, the redo that follows it and a new creation yield the scene
\* as it was before the undo, in the same order, with the new object last
\* (rectangle, ellipse, undo, redo, arrow gives [rectangle, ellipse, arrow]).
C18_OrderSurvivesUndoRedo ==
  CreatedAfterUndoRedo =>
    LET before == log.arg.carried[1]
    IN /\ Len(objects) = Len(before) + 1
       /\ SubSeq(toJSON(objects), 1, Len(before)) = before

\* the last call was an undo directly after a deletion
UndoAfterDelete == log.op = "keyUndo" /\ log.prev = <<"delete", TRUE>> /\ log.arg.before # None

\* C19: an undo directly after a deletion restores the scene as it was before
\* the deletion, the same objects in the same order.
C19_UndoRestoresDeleted == UndoAfterDelete => toJSON(objects) = log.arg.before[1]

\* C20 as stated: the release of a rectangle-tool gesture whose width or height
\* is below the threshold leaves the scene without a new object (the preview
\* is taken away) and the history as it was.
C20_SmallRectangleDiscarded ==
  (log.op = "mouseUp" /\ log.arg.tool = "rectangle"
     /\ (log.arg.obj.geom.width < MIN_SIZE \/ log.arg.obj.geom.height < MIN_SIZE))
    => /\ toJSON(objects) = toJSON(RemoveRef(log.arg.os.objects, "cur"))
       /\ history = log.h
       /\ historyIndex = log.i

----------------------------------------------------------------------------
(* Properties of the drag geometry *)

\* the last call was a pointer move of a rectangle drag with Shift held (and
\* Alt not held)
ShiftRectangleMove ==
  /\ log.op = "mouseMove"
  /\ log.arg.tool = "rectangle"
  /\ log.arg.shift /\ ~log.arg.alt
  /\ currentObject # None

\* C21: with Shift held, a rectangle drag of extent dx by dy gives a square of
\* side max(|dx|, |dy|) with one corner at the start point, on the side of the
\* pointer (a 120 by 80 drag gives a square of side 120).
C21_ShiftSquare ==
  ShiftRectangleMove =>
    LET start == log.arg.start
        p == log.arg.p
        side == Max(Abs(p.x - start.x), Abs(p.y - start.y))
        g == currentObject[1].geom
    IN /\ g.width = side
       /\ g.height = side
       /\ g.left = IF p.x >= start.x THEN start.x ELSE start.x - side
       /\ g.top = IF p.y >= start.y THEN start.y ELSE start.y - side
       /\ \E k \in 1..Len(objects) : objects[k].ref = "cur" /\ objects[k].geom = g

\* the 120 by 80 drag with Shift held
C21_Witness ==
  /\ ShiftRectangleMove
  /\ log.arg.p.x - log.arg.start.x = 120
  /\ log.arg.p.y - log.arg.start.y = 80
  /\ currentObject[1].geom.width = 120
  /\ currentObject[1].geom.height = 120

----------------------------------------------------------------------------
(* Properties of gestures interleaved with keyboard actions *)

PreviewKinds == {"spotlight-preview", "blur-preview", "crop-preview", "arrow-preview"}

\* C22: no snapshot of the history contains a preview object of a gesture
\* (spotlight-preview, blur-preview, crop-preview, arrow-preview).
C22_NoPreviewInHistory ==
  \A k \in 1..Len(history) :
    \A j \in 1..Len(history[k].objects) : history[k].objects[j].kind \notin PreviewKinds

\* C23: a tool change during a drag cancels the gesture: from the change on
\* the scene is the scene without the preview and nothing is being drawn, and
\* the release that follows commits no object and pushes no history entry.
C23_ToolSwitchCancels ==
  /\ log.op = "toolSwitch" =>
        /\ toJSON(objects) = log.arg.scene
        /\ ~isDrawing
        /\ currentObject = None
  /\ (log.op = "mouseUp" /\ log.arg.switched # None) =>
        /\ ~log.eff
        /\ toJSON(objects) = log.arg.switched[1].scene
        /\ history = log.h /\ historyIndex = log.i

\* the objects of the scene that are previews: tagged with a preview type or
\* the object a gesture is still working on
PreviewsInScene ==
  {k \in 1..Len(objects) : objects[k].kind \in PreviewKinds \/ objects[k].ref = "cur"}

\* C29: at any time the scene contains at most one preview object.
C29_SinglePreview == Cardinality(PreviewsInScene) <= 1

\* C30: after every pointer-up that follows a pointer-down the tool state is
\* idle: nothing is being drawn, start point, end point and preview are
\* cleared and no preview is left in the scene.
C30_GestureEndsIdle ==
  log.op = "mouseUp" =>
    /\ ~isDrawing
    /\ startPoint = None
    /\ endPoint = None
    /\ currentObject = None
    /\ PreviewsInScene = {}

----------------------------------------------------------------------------
(* Properties of the windows *)

\* C28: the settings window and the overlay window never exist at the same time.
C28_WindowsExclusive == ~(settingsWindow /\ overlayWindow)

----------------------------------------------------------------------------
(* Properties of the delete and cut guards *)

\* the last call was Delete or Ctrl+X with an overlay as the active object
OverlayDeleteAttempt == log.op \in {"delete", "cut"} /\ log.arg.active.kind \in OverlayKinds

\* C24: Delete or cut with the spotlight overlay or the crop mask as the active
\* object removes nothing: scene, overlay state and history are as before.
C24_OverlaysProtected ==
  OverlayDeleteAttempt =>
    /\ ~log.eff
    /\ toJSON(objects) = log.arg.scene
    /\ CurOS = log.arg.os
    /\ history = log.h
    /\ historyIndex = log.i

\* Ctrl+X was pressed with the crop mask as the active object while a
\* spotlight overlay exists
C24_Witness ==
  /\ OverlayDeleteAttempt
  /\ log.op = "cut"
  /\ log.arg.active.kind = "crop-overlay"
  /\ \E k \in 1..Len(objects) : objects[k].kind = "spotlight-overlay"

----------------------------------------------------------------------------
(* Properties of save / export *)

\* C25: an export is restricted to the crop rectangle exactly when the scene
\* has a crop region; without one it covers the full canvas.
C25_ExportFollowsCrop ==
  log.op = "export" =>
    IF log.arg.masks = <<>>
    THEN log.arg.region = None
    ELSE log.arg.region # None /\ \E k \in 1..Len(log.arg.masks) : log.arg.masks[k].geom = log.arg.region[1]

\* C26: outside the rasterisation step of a save no crop mask is hidden and
\* no temporary background image is in the scene, whether the save succeeded
\* or failed.
C26_SaveRestoresScene ==
  savePc # "bg" =>
    \A k \in 1..Len(objects) : objects[k].visible /\ objects[k].kind # "background-image"

\* the engine after a reset: scene and history empty, storage cleared,
\* numbering at its start, no overlay side-channel, no crop rectangle
EngineReset ==
  /\ objects = <<>>
  /\ history = <<>> /\ historyIndex = -1
  /\ lsState = None /\ lsHistory = None
  /\ numberingCounter = 1
  /\ spotlightHoles = <<>> /\ ~spotlightOverlay /\ ~cropOverlay /\ ~hasCrop
  /\ cropBounds = None /\ canvasCropBounds = None

\* C27: once a save has returned a file path the engine is eventually reset.
C27_SaveIsTerminal == (log.op = "saved") ~> EngineReset

----------------------------------------------------------------------------
(* The history index *)

\* C35: starting from the initial store, after any sequence of pushHistory,
\* undo, redo and clearHistory calls, either history is empty and
\* historyIndex = -1, or 0 <= historyIndex < history.length.
C35_IndexInRange ==
  \/ history = <<>> /\ historyIndex = -1
  \/ 0 <= historyIndex /\ historyIndex < Len(history)

\* a push into the history that a clearHistory call has just emptied
C35_Witness ==
  /\ log.op = "pushHistory" /\ log.h = <<>> /\ log.i = -1
  /\ log.prev = <<"clearHistory", TRUE>>
  /\ historyIndex = 0 /\ Len(history) = 1

----------------------------------------------------------------------------
(* Clear-all and the history *)

\* a gesture or a numbering press that pushed a snapshot
Committed == log.op \in {"mouseUp", "numbering"} /\ log.eff

\* C36: after clear-all the history is empty (length 0, historyIndex = -1) and
\* no empty-scene baseline is pushed, so after the next single committed
\* object history has one entry at index 0, canUndo() is false and undo()
\* cannot return to the empty scene.
C36_ClearLeavesNoBaseline ==
  /\ log.op = "handleClear" => history = <<>> /\ historyIndex = -1
  /\ (Committed /\ log.h = <<>> /\ log.i = -1)
       => /\ Len(history) = 1 /\ historyIndex = 0
          /\ history[1].objects # <<>>
          /\ ~canUndo(history, historyIndex)
          /\ undo(history, historyIndex, LS, "ok").ret = None

\* a badge was placed right after clear-all emptied the history
C36_Witness ==
  /\ log.op = "numbering" /\ log.prev = <<"handleClear", TRUE>>
  /\ log.h = <<>> /\ log.i = -1
  /\ Len(history) = 1 /\ Len(objects) = 1

----------------------------------------------------------------------------
(* The numbering tool *)

\* a pointer-down on the canvas while the numbering tool is active
NumberingPress == CanvasExists /\ activeTool = "numbering" /\ ~pointerDown /\ pointerDown'

\* the step added one badge with the given label on top of the scene
BadgeAdded(n) ==
  /\ Len(objects') = Len(objects) + 1
  /\ SubSeq(toJSON(objects'), 1, Len(objects)) = toJSON(objects)
  /\ objects'[Len(objects')].kind = "numbering"
  /\ objects'[Len(objects')].style = <<n>>

\* the step pushed one snapshot, of the new scene, after the current entry
OneEntryPushed ==
  /\ history' = Append(Slice0(history, historyIndex + 1),
                       HistorySnapshot(objects', spotlightHoles', spotlightColor', spotlightDarkness'))
  /\ historyIndex' = Len(history') - 1

\* C33: each pointer-down with the numbering tool adds exactly one badge
\* labelled with the current counter on top of the z-order, increments the
\* counter by exactly 1, starts no drag gesture and pushes one history entry;
\* the counter changes in no other way except being set back to its start
\* value by clear-all or a successful export (undo does not decrease it).
C33_NumberingCounter ==
  [][/\ NumberingPress
          => /\ BadgeAdded(numberingCounter)
             /\ numberingCounter' = numberingCounter + 1
             /\ ~isDrawing'
             /\ OneEntryPushed
     /\ numberingCounter' # numberingCounter
          => \/ NumberingPress
             \/ numberingCounter' = 1 /\ log'.op \in {"handleClear", "saveReset"}]_vars

----------------------------------------------------------------------------
(* Loading a damaged scene *)

\* initCanvas has just run in the renderer that exists, not on a fresh start,
\* and found a scene item that does not parse
LoadedUnparsable ==
  /\ CanvasExists
  /\ InitDone /\ ~InitFresh
  /\ InitStorage.state = Some(Unparsable)

\* C34: if the persisted scene snapshot cannot be parsed when the canvas
\* loads (not a fresh start), no error propagates and the engine starts from
\* an empty scene with history holding exactly one empty-scene snapshot at
\* index 0.
C34_UnparsableFallsBack ==
  LoadedUnparsable
    => /\ pc = "ready"
       /\ objects = <<>>
       /\ history = <<EmptyScene>>
       /\ historyIndex = 0

----------------------------------------------------------------------------
(* The spotlight tint in the history *)

\* C37: every snapshot pushed to history records, as its spotlight darkness
\* and colour, the darkness and colour of the overlay actually in the scene
\* at that moment, also when the snapshot is taken after an undo or redo has
\* rebuilt the overlay from stored values; hence undo followed by redo
\* re-displays the same overlay tint.
C37_SnapshotRecordsTint ==
  (log.op = "mouseUp" /\ log.eff)
    => LET snap == history[historyIndex + 1]
       IN \A k \in 1..Len(objects) :
            objects[k].kind = "spotlight-overlay"
              => objects[k].style = <<ParsedColor(snap), ParsedDarkness(snap)>>

----------------------------------------------------------------------------
(* The active tool after a committed gesture *)

SelectAfter == {"rectangle", "ellipse", "line", "arrow"}
StayAfter == {"freehand", "marker", "spotlight", "crop"}

\* the place in the scene of the object the last step committed: the place
\* of the preview for the shapes that keep it, the top for the others; 0 when
\* the preview was no longer in the scene
CommittedAt ==
  IF log.op = "mouseUp" /\ log.arg.tool \in ShapeTools
  THEN IF \E k \in 1..Len(log.arg.os.objects) : log.arg.os.objects[k].ref = "cur"
       THEN CHOOSE k \in 1..Len(log.arg.os.objects) : log.arg.os.objects[k].ref = "cur"
       ELSE 0
  ELSE Len(objects)

\* the last step committed a gesture released with the tool t
CommittedWith(t) ==
  /\ log.op \in {"mouseUp", "pathCreated", "blurDone"}
  /\ log.eff
  /\ log.arg.tool = t
  /\ CommittedAt > 0

\* the object just committed is the active selection
NewObjectActive == objects[CommittedAt].ref = "active"

\* C31: after a committed rectangle, ellipse, line or arrow gesture the
\* active tool is select and the new object is the active selection; after a
\* committed freehand, marker, spotlight, blur or crop gesture the active
\* tool is unchanged.
C31_ToolAfterCommit ==
  /\ \A t \in SelectAfter : CommittedWith(t) => activeTool = "select" /\ NewObjectActive
  /\ \A t \in StayAfter \cup {"blur"} : CommittedWith(t) => activeTool = t

\* C31 as the code has it: blur belongs with the tools that hand over to
\* select; after a committed rectangle, ellipse, line, arrow or blur gesture
\* the active tool is select and the new object is the active selection, and
\* after a committed freehand, marker, spotlight or crop gesture the active
\* tool is unchanged.
C31_BlurSelectsToo ==
  /\ \A t \in SelectAfter \cup {"blur"} : CommittedWith(t) => activeTool = "select" /\ NewObjectActive
  /\ \A t \in StayAfter : CommittedWith(t) => activeTool = t

\* a blur rectangle has just been added
C31_Witness == CommittedWith("blur") /\ activeTool = "select" /\ NewObjectActive

----------------------------------------------------------------------------
(* A gesture begun while a blur commit waits *)

\* a blur commit is waiting for createBlurRect
BlurWaits == blurPending # <<>>

\* the step is the completion of a waiting blur commit
BlurCompletes == CanvasExists /\ BlurWaits /\ Len(blurPending') = Len(blurPending) - 1

\* a gesture begun after the release of the blur is in progress
NewerGesture ==
  /\ pointerDown
  /\ isDrawing /\ startPoint # None /\ currentObject # None
  /\ \E k \in 1..Len(objects) : objects[k].ref = "cur"

\* the step is a pointer move with no button held
HoverMove ==
  /\ ~pointerDown /\ ~pointerDown'
  /\ activeTool' = activeTool
  /\ blurPending' = blurPending
  /\ currentObject' # currentObject

\* C38: a gesture started while a blur commit is still waiting for its
\* rasterisation is not disturbed by the completion: the completion adds the
\* blur object and a history entry but leaves the drawing flag, the start
\* point and the current preview of the newer gesture as they are; pointer
\* moves during the wait alter no scene object.
C38_BlurWaitUndisturbed ==
  [][ /\ (BlurCompletes /\ NewerGesture)
          => /\ isDrawing' = isDrawing
             /\ startPoint' = startPoint
             /\ currentObject' = currentObject
             /\ \E k \in 1..Len(objects') : objects'[k].kind = "blur" /\ objects'[k].ref = "active"
             /\ history' # history
      /\ (BlurWaits /\ HoverMove) => objects' = objects
    ]_vars

----------------------------------------------------------------------------
(* The text tool *)

\* the step is a pointer-down
Press == CanvasExists /\ ~pointerDown /\ pointerDown'

\* number of text objects in a list of objects
RECURSIVE NumTexts(_)
NumTexts(objs) ==
  IF objs = <<>> THEN 0
  ELSE NumTexts(Tail(objs)) + (IF Head(objs).kind = "text" THEN 1 ELSE 0)

----------------------------------------------------------------------------
(* Overlapping save requests *)

\* no call of handleSaveWithOptions is between hiding the crop mask and
\* restoring it
NoSaveBeforeRestore == savePc # "bg" /\ (secondSave = None \/ secondSave[1].pc # "bg")

\* C39: if two save requests overlap (the second starts while the first is
\* awaiting the background image or the file write), then after both have
\* finished the crop mask is as visible as before the first started (in this
\* specification: visible, as nothing else hides it), no temporary background
\* layer remains in the scene, and neither exported image contains the crop
\* mask.
C39_OverlappingSaves ==
  /\ NoSaveBeforeRestore
       => \A k \in 1..Len(objects) :
            /\ objects[k].kind = "crop-overlay" => objects[k].visible
            /\ objects[k].kind # "background-image"
  /\ log.op = "export" => \A k \in 1..Len(log.arg.masks) : ~log.arg.masks[k].visible

----------------------------------------------------------------------------
(* The updates of the upload widget *)

TerminalStates == {"success", "error"}

\* C40: for each upload, once a terminal update (state success or state
\* error) has been sent to the upload widget, no later update with the state
\* uploading is sent, so the widget's last state is the terminal one on
\* every path, a failed network request included.
C40_TerminalUpdateIsLast ==
  \A i, j \in 1..Len(widgetUpdates) :
    (i < j /\ widgetUpdates[i].state \in TerminalStates) => widgetUpdates[j].state # "uploading"

============================================================================
